---- MODULE Spec2Model ----
(***************************************************************************)
(* A model of the socket multiplexing core of open-core:                   *)
(*   src/src/actor/socket_manager/SocketManager.py                         *)
(* One SocketManager wraps one raw socket, tracks the endpoints the socket  *)
(* is linked to, and runs two background pipelines (emit, receive) as       *)
(* asyncio tasks next to the coroutines that call its methods.              *)
(* An actor (src/src/actor/AbstractActor.py) owns a dict of such managers   *)
(* by name and applies its bulk operations to all of them.                  *)
(*                                                                          *)
(* Scheduling is asyncio's: one coroutine runs at a time and keeps running  *)
(* until it suspends.  Every action below is one such run: a synchronous    *)
(* method as a whole, or the part of an async method between two            *)
(* suspension points.                                                       *)
(***************************************************************************)
EXTENDS Integers, Sequences, FiniteSets, Bags, TLC

\* ---------------------------------------------------------------- bounds
NumEndpoints == 2   \* endpoint strings a caller may pass
NumCallers   == 2   \* coroutines that call the manager concurrently
MaxTasks     == 2   \* pipeline tasks alive at one time
MaxEmit      == 2   \* emit() calls in one behaviour
MaxDeliver   == 2   \* frames the transport delivers in one behaviour
SeqFrames    == 1   \* frames each way where one coroutine calls the manager
NumTopics    == 1   \* topics a caller may subscribe to
NumNames     == 2   \* manager names a caller of the actor may pass
ActorFrames  == 1   \* frames each way through the managers of an actor
MaxInt       == 1   \* messages hold the integers 0..MaxInt
MaxItems     == 2   \* the longest list in a message
NumMessages  == 2   \* integers the publisher emits before "terminate"
MaxParamLen  == 2   \* the longest parameter of an endpoint builder

Endpoints == 1..NumEndpoints
TaskIds   == 1..MaxTasks
Topics    == 1..NumTopics
Names     == 1..NumNames

\* ------------------------------------------------------- program constants
BIND       == "bind"
UNBIND     == "unbind"
CONNECT    == "connect"
DISCONNECT == "disconnect"

\* the keys of self.endpoints, in the insertion order of the dict
MethodOrder == <<BIND, CONNECT, UNBIND, DISCONNECT>>
Methods     == {BIND, CONNECT, UNBIND, DISCONNECT}

None     == 0    \* Python's None for a task handle
Finished == -1   \* a reference to a task that has ended

\* a frame is the tuple (topic, payload); the payload carries its number
Topic      == <<"topic", 1>>
Payload(n) == <<"payload", n>>
Frame(n)   == <<Topic, Payload(n)>>
\* the number of a payload that carries one; the payloads of an actor's
\* messages, bytes of a serializer, carry none
PayloadId(p) == IF Len(p) = 2 /\ p[1] = "payload" THEN p[2] ELSE 0

VARIABLES
  endpoints,        \* self.endpoints: method -> set of endpoints
  emit_queue,       \* self._emit_queue: frames not yet taken by the pipeline
  recv_queue,       \* self._recv_queue: payloads not yet taken by recv()
  emit_unfinished,  \* the emit queue's count of puts without task_done()
  emit_task,        \* self._emit_task: a task id, Finished or None
  recv_task,        \* self._recv_task: a task id, Finished or None
  tasks,            \* the asyncio tasks created by boot()
  waiters,          \* the coroutines suspended in a call: a bag of records
  socket,           \* the transport's own state of self.socket
  subscriptions,    \* self.subscriptions: the set of subscribed topics
  ncalls,           \* transport link calls of the last step: method -> endpoint -> count
  after_close,      \* transport methods invoked after close()
  sent,             \* frames handed to send_multipart, in order
  n_emit,           \* number of emit() calls so far
  n_deliv,          \* number of frames the transport delivered so far
  returned,         \* values returned by recv() calls, in order
  discarded,        \* payload numbers dropped by empty_queues()
  last,             \* the call that returned in the last step, if any
  socket_managers,  \* the actor's self.socket_managers, in insertion order
  actor_call,       \* the call of the actor its caller is suspended in, if any
  actor_last,       \* the call of the actor that returned in the last step
  n_sockets,        \* sockets the context created in the last step
  context,          \* the actor's self._context: "open" or "terminated"
  runner,           \* start_actor: where it is, and the loop it was given
  codec,            \* a serializer at work: the object, its bytes, the result
  pubsub,           \* example/pub_sub.py: the two actors and what is between
  built             \* an endpoint builder at work: its parameters, its result

vars == <<endpoints, emit_queue, recv_queue, emit_unfinished, emit_task,
          recv_task, tasks, waiters, socket, subscriptions, ncalls,
          after_close, sent, n_emit, n_deliv, returned, discarded, last,
          socket_managers, actor_call, actor_last, n_sockets, context,
          runner, codec, pubsub, built>>

\* ----------------------------------------------------------------- helpers
Range(q) == {q[i] : i \in 1..Len(q)}

FreeTask   == [kind |-> "none", st |-> "free"]
Waiter(pc, op, eq, t) == [pc |-> pc, op |-> op, eq |-> eq, task |-> t]
NoCaller   == [op |-> "none", eq |-> FALSE]
NoCall     == [op |-> "none", m |-> "none", e |-> 0, eq |-> FALSE, res |-> "none"]
Call(op, m, e, eq, res) == [op |-> op, m |-> m, e |-> e, eq |-> eq, res |-> res]
SUBSCRIBE   == "SUBSCRIBE"
UNSUBSCRIBE == "UNSUBSCRIBE"
NoCalls    ==
  [m \in Methods \cup {SUBSCRIBE, UNSUBSCRIBE} |->
     IF m \in Methods THEN [e \in Endpoints |-> 0] ELSE [c \in Topics |-> 0]]
NoActorCall == [op |-> "none", i |-> 0, fmt |-> "none"]
NoEndpoint ==
  [pc |-> "idle", scheme |-> "none", a |-> <<>>, b |-> <<>>, endpoint |-> <<>>]
NoCodec ==
  [pc |-> "idle", fmt |-> "none", obj |-> <<>>, data |-> <<>>, cut |-> FALSE,
   out |-> [exc |-> "none", val |-> <<"none", 0>>]]
NoActorLast ==
  [op |-> "none", name |-> 0, res |-> "none", val |-> <<"none", 0>>,
   fmt |-> "none"]
ActorLast(op, name, res, val) ==
  [op |-> op, name |-> name, res |-> res, val |-> val, fmt |-> "none"]

\* the state as one record, so that a method is a function from state to
\* state; cur is the call the running coroutine is in, susp says that it has
\* suspended, exc is the exception the running method has raised ("ok" if
\* none), new is the task create_task has just returned, and overflow says
\* that the step would leave the bounds of the model
St == [endpoints |-> endpoints, emit_queue |-> emit_queue,
       recv_queue |-> recv_queue, emit_unfinished |-> emit_unfinished,
       emit_task |-> emit_task, recv_task |-> recv_task, tasks |-> tasks,
       waiters |-> waiters, socket |-> socket,
       subscriptions |-> subscriptions, ncalls |-> NoCalls,
       after_close |-> after_close, sent |-> sent, n_emit |-> n_emit,
       n_deliv |-> n_deliv, returned |-> returned, discarded |-> discarded,
       last |-> NoCall, cur |-> NoCaller, susp |-> FALSE, exc |-> "ok",
       new |-> None, overflow |-> FALSE]

Commit(s) ==
  /\ ~s.overflow
  /\ endpoints' = s.endpoints
  /\ emit_queue' = s.emit_queue
  /\ recv_queue' = s.recv_queue
  /\ emit_unfinished' = s.emit_unfinished
  /\ emit_task' = s.emit_task
  /\ recv_task' = s.recv_task
  /\ tasks' = s.tasks
  /\ waiters' = s.waiters
  /\ socket' = s.socket
  /\ subscriptions' = s.subscriptions
  /\ ncalls' = s.ncalls
  /\ after_close' = s.after_close
  /\ sent' = s.sent
  /\ n_emit' = s.n_emit
  /\ n_deliv' = s.n_deliv
  /\ returned' = s.returned
  /\ discarded' = s.discarded
  /\ last' = s.last
  /\ UNCHANGED <<socket_managers, actor_call, actor_last, n_sockets, context>>
  /\ UNCHANGED <<runner, codec, pubsub, built>>

\* -------------------------------------------------------------- transport
\* The raw socket is a collaborator.  It keeps its own record of what it is
\* bound and connected to; a teardown of an endpoint it does not hold either
\* raises (strict, as libzmq's ENOENT) or is accepted silently (as a lenient
\* transport or a test double does); every call on a closed socket raises.
CountCall(s, m, e) ==
  [s EXCEPT !.ncalls[m][e] = @ + 1,
            !.after_close = IF s.socket.closed THEN @ \cup {m} ELSE @]

\* a transport that still accepts bind and connect after close()
SocketLink_AfterClose(s0, m, e) ==
  LET s == CountCall(s0, m, e) IN
  [s EXCEPT !.socket[m] = @ \cup {e}]

SocketLink(s0, m, e) ==
  LET s == CountCall(s0, m, e) IN
  IF s.socket.closed
  THEN [s EXCEPT !.exc = "ZMQError"]
  ELSE [s EXCEPT !.socket[m] = @ \cup {e}]

SocketUnlink(s0, m, e, strict) ==
  LET s   == CountCall(s0, m, e)
      fwd == IF m = UNBIND THEN BIND ELSE CONNECT
  IN  IF s.socket.closed THEN [s EXCEPT !.exc = "ZMQError"]
      ELSE IF e \in s.socket[fwd] THEN [s EXCEPT !.socket[fwd] = @ \ {e}]
      ELSE IF strict THEN [s EXCEPT !.exc = "ZMQError"]
      ELSE s

SocketClose(s) == [s EXCEPT !.socket.closed = TRUE]

\* socket.setsockopt(SUBSCRIBE, topic) and socket.setsockopt(UNSUBSCRIBE, topic)
SocketSetsockopt(s, on, topic) ==
  LET s1 == [s EXCEPT !.ncalls[IF on THEN SUBSCRIBE ELSE UNSUBSCRIBE][topic] =
                         @ + 1]
  IN  IF s.socket.closed
      THEN [s1 EXCEPT !.exc = "ZMQError",
                      !.after_close = @ \cup {"setsockopt"}]
      ELSE [s1 EXCEPT !.socket.topics =
                         IF on THEN @ \cup {topic} ELSE @ \ {topic}]

\* subscribe that sets the option without looking at self.subscriptions
Subscribe_NoCheck(s, topic) ==
  LET s1 == SocketSetsockopt(s, TRUE, topic) IN
  IF s1.exc # "ok" THEN s1
  ELSE [s1 EXCEPT !.subscriptions = @ \cup {topic}]

\* SocketManager.subscribe
Subscribe(s, topic) ==
  IF topic \notin s.subscriptions
  THEN LET s1 == SocketSetsockopt(s, TRUE, topic) IN
       IF s1.exc # "ok" THEN s1
       ELSE [s1 EXCEPT !.subscriptions = @ \cup {topic}]
  ELSE s

\* SocketManager.unsubscribe
Unsubscribe(s, topic) ==
  IF topic \in s.subscriptions
  THEN LET s1 == SocketSetsockopt(s, FALSE, topic) IN
       IF s1.exc # "ok" THEN s1
       ELSE [s1 EXCEPT !.subscriptions = @ \ {topic}]
  ELSE s

\* ------------------------------------------------------ link and unlink
\* _link with the transport call made before the duplicate check
Link_CallsBeforeCheck(s, m, e) ==
  LET s1 == SocketLink(s, m, e) IN
  IF e \notin s.endpoints[m]
  THEN IF s1.exc # "ok" THEN s1
       ELSE [s1 EXCEPT !.endpoints[m] = @ \cup {e},
                       !.endpoints[IF m = BIND THEN UNBIND ELSE DISCONNECT] =
                           @ \cup {e}]
  ELSE [s1 EXCEPT !.exc = "ValueError"]

\* _link that records the endpoint under the method only
Link_NoMirror(s, m, e) ==
  IF e \notin s.endpoints[m]
  THEN LET s1 == SocketLink(s, m, e) IN
       IF s1.exc # "ok" THEN s1
       ELSE [s1 EXCEPT !.endpoints[m] = @ \cup {e}]
  ELSE [s EXCEPT !.exc = "ValueError"]

\* _link that stages the teardown before the transport call
Link_StagesFirst(s, m, e) ==
  IF e \notin s.endpoints[m]
  THEN LET s0 == [s EXCEPT !.endpoints[IF m = BIND THEN UNBIND
                                       ELSE DISCONNECT] = @ \cup {e}]
           s1 == SocketLink(s0, m, e)
       IN  IF s1.exc # "ok" THEN s1
           ELSE [s1 EXCEPT !.endpoints[m] = @ \cup {e}]
  ELSE [s EXCEPT !.exc = "ValueError"]

\* SocketManager._link
Link(s, m, e) ==
  IF e \notin s.endpoints[m]
  THEN LET s1 == SocketLink(s, m, e) IN
       IF s1.exc # "ok" THEN s1
       ELSE [s1 EXCEPT !.endpoints[m] = @ \cup {e},
                       !.endpoints[IF m = BIND THEN UNBIND ELSE DISCONNECT] =
                           @ \cup {e}]
  ELSE [s EXCEPT !.exc = "ValueError"]

\* _unlink that removes the endpoint from the set of the forward method
Unlink_RemovesActive(s, m, e, strict) ==
  LET fwd == IF m = UNBIND THEN BIND ELSE CONNECT IN
  IF e \in s.endpoints[fwd]
  THEN LET s1 == SocketUnlink(s, m, e, strict) IN
       IF s1.exc # "ok" THEN s1
       ELSE [s1 EXCEPT !.endpoints[fwd] = @ \ {e}]
  ELSE [s EXCEPT !.exc = "ValueError"]

\* SocketManager._unlink
Unlink(s, m, e, strict) ==
  IF e \in s.endpoints[IF m = UNBIND THEN BIND ELSE CONNECT]
  THEN LET s1 == SocketUnlink(s, m, e, strict) IN
       IF s1.exc # "ok" THEN s1
       ELSE IF e \notin s1.endpoints[m]
            THEN [s1 EXCEPT !.exc = "KeyError"]      \* set.remove of a non-member
            ELSE [s1 EXCEPT !.endpoints[m] = @ \ {e}]
  ELSE [s EXCEPT !.exc = "ValueError"]

\* ------------------------------------------------------------- pipelines
IsEmitting(s)  == s.emit_task # None      \* SocketManager.is_emitting
IsReceiving(s) == s.recv_task # None      \* SocketManager.is_receiving
IsBidirectional(s) == IsEmitting(s) /\ IsReceiving(s)

Alive(s, t) == t \in TaskIds /\ s.tasks[t].st # "free"

\* task t ends.  All that the program can tell of a task that has ended is
\* that it has ended, so every reference to it (a handle, the `await` of a
\* suspended coroutine) becomes Finished and the id is free again
Finish(s, t) ==
  [s EXCEPT !.tasks[t] = FreeTask,
            !.emit_task = IF @ = t THEN Finished ELSE @,
            !.recv_task = IF @ = t THEN Finished ELSE @,
            !.waiters = BagOfAll(LAMBDA w : IF w.task = t
                                            THEN [w EXCEPT !.task = Finished]
                                            ELSE w, @)]

\* asyncio.create_task: a new task, not yet run
CreateTask(s, kind) ==
  LET free == {t \in TaskIds : s.tasks[t].st = "free"}
  IN  IF free = {}
      THEN [s EXCEPT !.overflow = TRUE, !.new = None]
      ELSE LET t == CHOOSE t \in free : \A u \in free : t <= u IN
           [s EXCEPT !.tasks[t] = [kind |-> kind, st |-> "ready"], !.new = t]

\* boot() that does not look at the handles
Boot_IgnoresHandle(s) ==
  LET s1 == IF s.endpoints[BIND] # {}
            THEN LET n == CreateTask(s, "emit") IN
                 [n EXCEPT !.emit_task = n.new]
            ELSE s
  IN  IF s1.endpoints[CONNECT] # {}
      THEN LET n == CreateTask(s1, "recv") IN
           [n EXCEPT !.recv_task = n.new]
      ELSE s1

\* SocketManager.boot
Boot(s) ==
  LET s1 == IF s.endpoints[BIND] # {} /\ ~IsEmitting(s)
            THEN LET n == CreateTask(s, "emit") IN
                 [n EXCEPT !.emit_task = n.new]
            ELSE s
  IN  IF s1.endpoints[CONNECT] # {} /\ ~IsReceiving(s1)
      THEN LET n == CreateTask(s1, "recv") IN
           [n EXCEPT !.recv_task = n.new]
      ELSE s1

\* _background_emit reading the head of the queue without taking it off
EmitGet_KeepsHead(s, t) ==
  IF s.emit_queue = <<>>
  THEN [s EXCEPT !.tasks[t].st = "get"]
  ELSE [s EXCEPT !.sent = Append(@, Head(s.emit_queue)),
                 !.tasks[t].st = "send"]

\* the step of _background_emit from `self._emit_queue.get()` on: with a frame
\* in the queue the task takes it and hands it to send_multipart, where it
\* waits for the socket; with an empty queue it waits in get()
EmitGet(s, t) ==
  IF s.emit_queue = <<>>
  THEN [s EXCEPT !.tasks[t].st = "get"]
  ELSE LET s1 == [s EXCEPT !.emit_queue = Tail(@),
                           !.sent = Append(@, Head(s.emit_queue))]
       IN  IF s.socket.closed
           THEN Finish([s1 EXCEPT !.after_close = @ \cup {"send_multipart"}], t)
           ELSE [s1 EXCEPT !.tasks[t].st = "send"]

\* the step of _background_emit after send_multipart has returned:
\* task_done() on the queue that is now self._emit_queue (a ValueError when
\* that queue has no unfinished put ends the pipeline), then the next get()
EmitSendDone(s, t) ==
  IF s.emit_unfinished = 0
  THEN Finish(s, t)
  ELSE EmitGet([s EXCEPT !.emit_unfinished = @ - 1], t)

\* the step of _background_recv that calls recv_multipart and waits
RecvWait(s, t) ==
  IF s.socket.closed
  THEN Finish([s EXCEPT !.after_close = @ \cup {"recv_multipart"}], t)
  ELSE [s EXCEPT !.tasks[t].st = "recvwait"]

\* _background_recv queueing the topic part instead of the payload part
RecvFrame_KeepsTopic(s, t, frame) ==
  RecvWait([s EXCEPT !.recv_queue = Append(@, frame[1])], t)

\* the step of _background_recv on an inbound frame: the topic part is
\* dropped, the payload part is put on the queue, and the task waits again
RecvFrame(s, t, frame) ==
  RecvWait([s EXCEPT !.recv_queue = Append(@, frame[2])], t)

\* a cancel() that does not reach a task blocked in send_multipart
Cancel_SkipsSend(s, t) ==
  IF Alive(s, t) /\ s.tasks[t].st # "send"
  THEN [s EXCEPT !.tasks[t].st = "cancelling"] ELSE s

\* Task.cancel(): the task gets CancelledError at its next step
Cancel(s, t) ==
  IF Alive(s, t) THEN [s EXCEPT !.tasks[t].st = "cancelling"] ELSE s

StaleGetter(w) == IF w.pc = "recv_get" THEN [w EXCEPT !.pc = "recv_stale"] ELSE w

\* empty_queues replacing the receive queue only
EmptyQueues_RecvOnly(s) ==
  [s EXCEPT
     !.discarded.recv = @ \cup {PayloadId(p) : p \in Range(s.recv_queue)},
     !.recv_queue = <<>>,
     !.waiters = BagOfAll(StaleGetter, s.waiters)]

\* SocketManager.empty_queues: both queues are replaced by new ones; whoever
\* waits in get() on a replaced queue waits on a queue nobody puts to.  (A
\* getter that a put has woken but that has not run yet counts as waiting:
\* being woken and taking the item are one step, EmitWake or RecvWake.)
EmptyQueues(s) ==
  [s EXCEPT
     !.discarded = [emit |-> @.emit \cup {PayloadId(f[2]) : f \in Range(s.emit_queue)},
                    recv |-> @.recv \cup {PayloadId(p) : p \in Range(s.recv_queue)}],
     !.recv_queue = <<>>,
     !.emit_queue = <<>>,
     !.emit_unfinished = 0,
     !.tasks = [t \in TaskIds |->
                  IF s.tasks[t].st = "get"
                  THEN [s.tasks[t] EXCEPT !.st = "stale"] ELSE s.tasks[t]],
     !.waiters = BagOfAll(StaleGetter, s.waiters)]

\* -------------------------------------------------- stop, reboot, terminate
\* the running coroutine returns from the call it is in
Return(s) ==
  [s EXCEPT !.last = Call(s.cur.op, "none", 0, s.cur.eq, s.exc)]

\* the running coroutine suspends in `await` of task t
Suspend(s, pc, t) ==
  [s EXCEPT !.waiters = @ (+) SetToBag({Waiter(pc, s.cur.op, s.cur.eq, t)}),
            !.susp = TRUE]

\* stop_emitting that cancels the receive pipeline as well
StopEmittingHead_CancelsBoth(s) ==
  IF IsEmitting(s)
  THEN LET t  == s.emit_task
           s1 == Cancel(Cancel(s, t), s.recv_task)
       IN  IF t = Finished
           THEN [s1 EXCEPT !.emit_task = None]
           ELSE Suspend(s1, "await_emit", t)
  ELSE s

\* SocketManager.stop_emitting up to `await self._emit_task`
StopEmittingHead(s) ==
  IF IsEmitting(s)
  THEN LET t  == s.emit_task
           s1 == Cancel(s, t)
       IN  IF t = Finished
           THEN [s1 EXCEPT !.emit_task = None]
           ELSE Suspend(s1, "await_emit", t)
  ELSE s

\* SocketManager.stop_receiving up to `await self._recv_task`
StopReceivingHead(s) ==
  IF IsReceiving(s)
  THEN LET t  == s.recv_task
           s1 == Cancel(s, t)
       IN  IF t = Finished
           THEN [s1 EXCEPT !.recv_task = None]
           ELSE Suspend(s1, "await_recv", t)
  ELSE s

\* the loop body of terminate() for one key of self.endpoints: the endpoints
\* of the key in the iteration order `order` of the set, up to the first
\* _unlink that raises
RECURSIVE UnlinkSeq(_, _, _, _)
UnlinkSeq(s, m, seq, strict) ==
  IF seq = <<>> THEN s
  ELSE LET s1 == Unlink(s, m, Head(seq), strict) IN
       IF s1.exc # "ok" THEN s1 ELSE UnlinkSeq(s1, m, Tail(seq), strict)

RECURSIVE TerminateLoop(_, _, _, _)
TerminateLoop(s, k, order, strict) ==
  IF k > Len(MethodOrder) THEN s
  ELSE LET method == MethodOrder[k]
           seq == SelectSeq(order, LAMBDA e : e \in s.endpoints[method])
           s1  == UnlinkSeq(s, IF method = BIND THEN UNBIND ELSE DISCONNECT,
                            seq, strict)
       IN  IF s1.exc # "ok" THEN s1
           ELSE TerminateLoop([s1 EXCEPT !.endpoints[method] = {}],
                              k + 1, order, strict)

\* terminate() closing the socket before it unlinks
TerminateTail_ClosesFirst(s, order, strict) ==
  TerminateLoop(SocketClose(s), 1, order, strict)

\* SocketManager.terminate after `await self.stop(empty_queue=True)`
TerminateTail(s, order, strict) ==
  LET s1 == TerminateLoop(s, 1, order, strict) IN
  IF s1.exc # "ok" THEN s1 ELSE SocketClose(s1)

\* reboot() that does not boot after stop()
StopTail_NoBoot(s, order, strict) ==
  LET s1 == IF s.cur.eq THEN EmptyQueues(s) ELSE s IN
  IF s.cur.op = "terminate" THEN Return(TerminateTail(s1, order, strict))
  ELSE Return(s1)

\* what follows the two awaits of stop(): the rest of stop(), and the rest
\* of reboot() or terminate() when stop() was called from there
StopTail(s, order, strict) ==
  LET s1 == IF s.cur.eq THEN EmptyQueues(s) ELSE s IN
  IF s.cur.op = "reboot" THEN Return(Boot(s1))
  ELSE IF s.cur.op = "terminate" THEN Return(TerminateTail(s1, order, strict))
  ELSE Return(s1)

\* from the return of stop_receiving() on
AfterStopReceiving(s, order, strict) ==
  IF s.cur.op = "stop_receiving" THEN Return(s)
  ELSE StopTail(s, order, strict)

\* from the call of stop_receiving() on
FromStopReceiving(s, order, strict) ==
  LET s1 == StopReceivingHead(s) IN
  IF s1.susp THEN s1 ELSE AfterStopReceiving(s1, order, strict)

\* from the return of stop_emitting() on
AfterStopEmitting(s, order, strict) ==
  IF s.cur.op = "stop_emitting" THEN Return(s)
  ELSE FromStopReceiving(s, order, strict)

\* from the call of stop_emitting() on
FromStopEmitting(s, order, strict) ==
  LET s1 == StopEmittingHead(s) IN
  IF s1.susp THEN s1 ELSE AfterStopEmitting(s1, order, strict)

\* ------------------------------------------------------------------ Init
\* the state after SocketManager.__init__ of a manager that is used on its
\* own, and after AbstractActor.__init__ of an actor
\* a manager after SocketManager.__init__, as a record of the shape of St
NewManager ==
  [endpoints |-> [m \in Methods |-> {}], emit_queue |-> <<>>,
   recv_queue |-> <<>>, emit_unfinished |-> 0, emit_task |-> None,
   recv_task |-> None, tasks |-> [t \in TaskIds |-> FreeTask],
   waiters |-> EmptyBag,
   socket |-> [bind |-> {}, connect |-> {}, topics |-> {}, closed |-> FALSE],
   subscriptions |-> {}, ncalls |-> NoCalls, after_close |-> {},
   sent |-> <<>>, n_emit |-> 0, n_deliv |-> 0, returned |-> <<>>,
   discarded |-> [emit |-> {}, recv |-> {}],
   last |-> NoCall, cur |-> NoCaller, susp |-> FALSE, exc |-> "ok",
   new |-> None, overflow |-> FALSE]

\* the manager between two steps of an actor: what belongs to the step that
\* has just been taken is forgotten, and so is the record of what was sent,
\* returned and discarded, which the program does not keep
Settle(s) ==
  [s EXCEPT !.ncalls = NoCalls, !.last = NoCall, !.cur = NoCaller,
            !.susp = FALSE, !.exc = "ok", !.new = None,
            !.sent = <<>>, !.returned = <<>>, !.after_close = {},
            !.discarded = [emit |-> {}, recv |-> {}]]

\* example/pub_sub.py before the two start_actor calls: the publisher's
\* manager is bound, the subscriber's has subscribed and is connected to the
\* same endpoint
\* before pub_service and sub_service have run there is no actor
NoPubSub ==
  [pub |-> [constructed |-> FALSE], sub |-> [constructed |-> FALSE],
   wire |-> <<>>, pub_pc |-> "none", emitted |-> 0, sub_pc |-> "none",
   got |-> <<>>]

\* the two actors as pub_service and sub_service construct them
PubSubInit ==
  [pub |-> Settle(Link(NewManager, BIND, 1)),
   sub |-> Settle(Link(Subscribe(NewManager, 1), CONNECT, 1)),
   wire |-> <<>>, pub_pc |-> "boot", emitted |-> 0,
   sub_pc |-> "boot", got |-> <<>>]

Init ==
  /\ endpoints = [m \in Methods |-> {}]
  /\ emit_queue = <<>>
  /\ recv_queue = <<>>
  /\ emit_unfinished = 0
  /\ emit_task = None
  /\ recv_task = None
  /\ tasks = [t \in TaskIds |-> FreeTask]
  /\ waiters = EmptyBag
  /\ socket = [bind |-> {}, connect |-> {}, topics |-> {}, closed |-> FALSE]
  /\ subscriptions = {}
  /\ ncalls = NoCalls
  /\ after_close = {}
  /\ sent = <<>>
  /\ n_emit = 0
  /\ n_deliv = 0
  /\ returned = <<>>
  /\ discarded = [emit |-> {}, recv |-> {}]
  /\ last = NoCall
  /\ socket_managers = <<>>
  /\ actor_call = NoActorCall
  /\ actor_last = NoActorLast
  /\ n_sockets = 0
  /\ context = "open"
  /\ runner = [pc |-> "idle", loop |-> "none"]
  /\ codec = NoCodec
  /\ pubsub = NoPubSub
  /\ built = NoEndpoint

\* ------------------------------------------------- actions of the callers
\* of n coroutines that call the manager, one is not suspended in a call
Free(n) == BagCardinality(waiters) < n

\* the iteration orders a set of endpoints can have
Orders ==
  {o \in [1..NumEndpoints -> Endpoints] : \A e \in Endpoints : e \in Range(o)}
AnyOrder == CHOOSE o \in Orders : TRUE

\* bind_via_*(...) and connect_via_*(...)
DoLink(n, m, e) ==
  /\ Free(n)
  /\ LET s == Link(St, m, e) IN
     Commit([s EXCEPT !.last = Call("link", m, e, FALSE, s.exc)])

\* unbind(endpoint) and disconnect(endpoint)
DoUnlink(n, m, e, strict) ==
  /\ Free(n)
  /\ LET s == Unlink(St, m, e, strict) IN
     Commit([s EXCEPT !.last = Call("unlink", m, e, FALSE, s.exc)])

\* emit(event): the k-th call puts the k-th frame on the emit queue
DoEmit(n, max) ==
  /\ Free(n)
  /\ n_emit < max
  /\ Commit([St EXCEPT !.emit_queue = Append(@, Frame(n_emit + 1)),
                       !.emit_unfinished = @ + 1,
                       !.n_emit = @ + 1])

\* the part of recv() from the return of `self._recv_queue.get()` on
RecvTake(s) ==
  [s EXCEPT !.recv_queue = Tail(@),
            !.returned = Append(@, Head(s.recv_queue))]

\* recv(): returns the head of the receive queue, or waits in get()
DoRecv(n) ==
  /\ Free(n)
  /\ Commit(IF recv_queue # <<>>
            THEN RecvTake(St)
            ELSE [St EXCEPT !.waiters =
                    @ (+) SetToBag({Waiter("recv_get", "recv", FALSE, None)})])

\* a coroutine waiting in recv() is resumed by a put on its queue
RecvWake ==
  /\ BagIn(Waiter("recv_get", "recv", FALSE, None), waiters)
  /\ recv_queue # <<>>
  /\ Commit(RecvTake([St EXCEPT !.waiters =
       @ (-) SetToBag({Waiter("recv_get", "recv", FALSE, None)})]))

\* subscribe(topic) and unsubscribe(topic)
DoSubscribe(n, on, topic) ==
  /\ Free(n)
  /\ LET s == IF on THEN Subscribe(St, topic) ELSE Unsubscribe(St, topic) IN
     Commit([s EXCEPT !.last =
       Call(IF on THEN "subscribe" ELSE "unsubscribe", "none", topic, FALSE,
            s.exc)])

\* boot()
DoBoot(n) ==
  /\ Free(n)
  /\ LET s == Boot(St) IN
     Commit([s EXCEPT !.last = Call("boot", "none", 0, FALSE, s.exc)])

\* the call of stop_emitting(), stop_receiving(), stop(eq), reboot() or
\* terminate(), up to its first suspension or its return
DoStop(n, op, eq, order, strict) ==
  /\ Free(n)
  /\ LET s == [St EXCEPT !.cur = [op |-> op, eq |-> eq]] IN
     Commit(IF op = "stop_receiving"
            THEN FromStopReceiving(s, order, strict)
            ELSE FromStopEmitting(s, order, strict))

\* the coroutine w of manager s runs on from `await self._emit_task`: the
\* finally clause and what follows
ResumedEmit(s, w, order, strict) ==
  AfterStopEmitting(
    [s EXCEPT !.emit_task = None,
              !.waiters = @ (-) SetToBag({w}),
              !.cur = [op |-> w.op, eq |-> w.eq]],
    order, strict)

\* the coroutine w of manager s runs on from `await self._recv_task`
ResumedRecv(s, w, order, strict) ==
  AfterStopReceiving(
    [s EXCEPT !.recv_task = None,
              !.waiters = @ (-) SetToBag({w}),
              !.cur = [op |-> w.op, eq |-> w.eq]],
    order, strict)

\* `await self._emit_task` returns: the finally clause and what follows
ResumeEmit(w, order, strict) ==
  /\ BagIn(w, waiters)
  /\ w.pc = "await_emit"
  /\ w.task = Finished
  /\ Commit(ResumedEmit(St, w, order, strict))

\* `await self._recv_task` returns: the finally clause and what follows
ResumeRecv(w, order, strict) ==
  /\ BagIn(w, waiters)
  /\ w.pc = "await_recv"
  /\ w.task = Finished
  /\ Commit(ResumedRecv(St, w, order, strict))

\* ---------------------------------------------- actions of the pipelines
\* the first step of a task
TaskStart(t) ==
  /\ tasks[t].st = "ready"
  /\ Commit(IF tasks[t].kind = "emit" THEN EmitGet(St, t) ELSE RecvWait(St, t))

\* a put on its queue resumes the emit pipeline waiting in get()
EmitWake(t) ==
  /\ tasks[t].st = "get"
  /\ emit_queue # <<>>
  /\ Commit(EmitGet(St, t))

\* the socket accepts the frame: send_multipart returns
EmitSent(t) ==
  /\ tasks[t].st = "send"
  /\ ~socket.closed
  /\ Commit(EmitSendDone(St, t))

\* the transport delivers the next inbound frame to recv_multipart
Deliver(t, max) ==
  /\ tasks[t].st = "recvwait"
  /\ ~socket.closed
  /\ n_deliv < max
  /\ Commit(RecvFrame([St EXCEPT !.n_deliv = @ + 1], t, Frame(n_deliv + 1)))

\* a pipeline whose handle is cleared when the pipeline faults
Fault_ClearsHandle(t) ==
  /\ tasks[t].st \in {"send", "recvwait"}
  /\ LET s == Finish(St, t) IN
     Commit([s EXCEPT !.emit_task = IF @ = Finished THEN None ELSE @,
                      !.recv_task = IF @ = Finished THEN None ELSE @])

\* send_multipart or recv_multipart raises (always so on a closed socket):
\* `except Exception` prints the error and the pipeline ends
Fault(t) ==
  /\ tasks[t].st \in {"send", "recvwait"}
  /\ Commit(Finish(St, t))

\* a cancelled task gets its CancelledError and ends
Cancelled(t) ==
  /\ tasks[t].st = "cancelling"
  /\ Commit(Finish(St, t))

\* ------------------------------------------------------- specifications
\* the first endpoint, for the specifications where one link is enough to
\* have a pipeline
First == CHOOSE e \in Endpoints : \A d \in Endpoints : e <= d

LinkStep(n) ==
  \E m \in {BIND, CONNECT}, e \in Endpoints : DoLink(n, m, e)

UnlinkStep(n) ==
  \E m \in {UNBIND, DISCONNECT}, e \in Endpoints, strict \in BOOLEAN :
    DoUnlink(n, m, e, strict)

\* terminate() where an _unlink of its loop can raise
TerminateStep(n) ==
  \E order \in Orders, strict \in BOOLEAN :
    DoStop(n, "terminate", TRUE, order, strict)

\* where no endpoint is ever unlinked one by one, no _unlink of terminate()
\* raises, and neither the iteration order nor the transport's strictness
\* makes a difference
Terminate(n) == DoStop(n, "terminate", TRUE, AnyOrder, TRUE)

StopEmitting(n)  == DoStop(n, "stop_emitting", FALSE, AnyOrder, TRUE)
StopReceiving(n) == DoStop(n, "stop_receiving", FALSE, AnyOrder, TRUE)
Stop(n)          == \E eq \in BOOLEAN : DoStop(n, "stop", eq, AnyOrder, TRUE)
Reboot(n)        == DoStop(n, "reboot", TRUE, AnyOrder, TRUE)

Awaiting == {w \in BagToSet(waiters) : w.pc \in {"await_emit", "await_recv"}}

Resume ==
  \E w \in Awaiting :
    ResumeEmit(w, AnyOrder, TRUE) \/ ResumeRecv(w, AnyOrder, TRUE)

\* concurrent callers of boot, stop, reboot and terminate on a manager with
\* a bind and a connect link
Next ==
  \/ \E m \in {BIND, CONNECT} : DoLink(NumCallers, m, First)
  \/ DoBoot(NumCallers)
  \/ StopEmitting(NumCallers)
  \/ StopReceiving(NumCallers)
  \/ Stop(NumCallers)
  \/ Reboot(NumCallers)
  \/ Terminate(NumCallers)
  \/ Resume
  \/ \E t \in TaskIds : TaskStart(t) \/ Cancelled(t) \/ Fault(t)
Spec == Init /\ [][Next]_vars

\* concurrent producers next to callers of boot, stop and reboot and the
\* emit pipeline
NextEmit ==
  \/ DoLink(NumCallers, BIND, First)
  \/ DoEmit(NumCallers, MaxEmit)
  \/ DoBoot(NumCallers)
  \/ Stop(NumCallers)
  \/ Reboot(NumCallers)
  \/ Resume
  \/ \E t \in TaskIds :
       TaskStart(t) \/ EmitWake(t) \/ EmitSent(t) \/ Cancelled(t) \/ Fault(t)
SpecEmit == Init /\ [][NextEmit]_vars

\* concurrent consumers next to callers of boot, stop and reboot and the
\* receive pipeline
NextRecv ==
  \/ DoLink(NumCallers, CONNECT, First)
  \/ DoRecv(NumCallers)
  \/ RecvWake
  \/ DoBoot(NumCallers)
  \/ Stop(NumCallers)
  \/ Reboot(NumCallers)
  \/ Resume
  \/ \E t \in TaskIds :
       TaskStart(t) \/ Deliver(t, MaxDeliver) \/ Cancelled(t) \/ Fault(t)
SpecRecv == Init /\ [][NextRecv]_vars

\* one calling coroutine that links, emits, boots and terminates, next to
\* both pipelines
NextSeq ==
  \/ LinkStep(1)
  \/ DoEmit(1, SeqFrames)
  \/ DoBoot(1)
  \/ Terminate(1)
  \/ Resume
  \/ \E t \in TaskIds :
       \/ TaskStart(t) \/ EmitWake(t) \/ EmitSent(t) \/ Deliver(t, SeqFrames)
       \/ Cancelled(t) \/ Fault(t)
SpecSeq == Init /\ [][NextSeq]_vars

\* one calling coroutine that emits, boots and stops, next to both pipelines
NextStop ==
  \/ \E m \in {BIND, CONNECT} : DoLink(1, m, First)
  \/ DoEmit(1, SeqFrames)
  \/ DoBoot(1)
  \/ Stop(1)
  \/ Resume
  \/ \E t \in TaskIds :
       \/ TaskStart(t) \/ EmitWake(t) \/ EmitSent(t) \/ Deliver(t, SeqFrames)
       \/ Cancelled(t) \/ Fault(t)
\* the event loop runs every task that is ready to run: a cancelled task
\* gets its CancelledError, and a coroutine whose awaited task has ended is
\* resumed.  Nothing is assumed of the transport.
CancelSteps  == \E t \in TaskIds : Cancelled(t)
SpecStopFair ==
  /\ Init /\ [][NextStop]_vars
  /\ WF_vars(CancelSteps) /\ WF_vars(Resume)
SpecStop == Init /\ [][NextStop]_vars

\* NextRecv under the scheduling of the event loop: a coroutine that a put
\* on its queue has woken runs, a cancelled task gets its CancelledError, and
\* a coroutine whose awaited task has ended is resumed
SpecRecvFair ==
  /\ Init /\ [][NextRecv]_vars
  /\ WF_vars(RecvWake) /\ WF_vars(CancelSteps) /\ WF_vars(Resume)

\* one calling coroutine that uses every control operation of a linked
\* manager short of terminate(), next to both pipelines
SubscribeStep(n) ==
  \E on \in BOOLEAN, topic \in Topics : DoSubscribe(n, on, topic)

NextCtl ==
  \/ \E m \in {BIND, CONNECT} : DoLink(1, m, First)
  \/ SubscribeStep(1)
  \/ DoEmit(1, SeqFrames)
  \/ DoBoot(1)
  \/ StopEmitting(1)
  \/ StopReceiving(1)
  \/ Stop(1)
  \/ Reboot(1)
  \/ Resume
  \/ \E t \in TaskIds :
       \/ TaskStart(t) \/ EmitWake(t) \/ EmitSent(t) \/ Deliver(t, SeqFrames)
       \/ Cancelled(t) \/ Fault(t)
SpecCtl == Init /\ [][NextCtl]_vars

\* one calling coroutine that goes on calling the manager after terminate()
NextLife ==
  \/ \E m \in {BIND, CONNECT} : DoLink(1, m, First)
  \/ SubscribeStep(1)
  \/ DoEmit(1, SeqFrames)
  \/ DoBoot(1)
  \/ Stop(1)
  \/ Reboot(1)
  \/ Terminate(1)
  \/ Resume
  \/ \E t \in TaskIds :
       \/ TaskStart(t) \/ EmitWake(t) \/ EmitSent(t) \/ Deliver(t, SeqFrames)
       \/ Cancelled(t) \/ Fault(t)
SpecLife == Init /\ [][NextLife]_vars

\* one calling coroutine that links, unlinks and terminates; nothing is booted
NextLink == LinkStep(1) \/ UnlinkStep(1) \/ TerminateStep(1)
SpecLink == Init /\ [][NextLink]_vars

\* a suspended call runs on, whatever the iteration order of the sets and
\* whatever the transport makes of a teardown it has no link for
ResumeStep ==
  \E w \in Awaiting, order \in Orders, strict \in BOOLEAN :
    ResumeEmit(w, order, strict) \/ ResumeRecv(w, order, strict)

\* one calling coroutine that links, unlinks, boots, stops, reboots and
\* terminates, calls that fail included; the pipelines, which never touch the
\* endpoint sets, are created and cancelled before they have run
NextSets ==
  \/ LinkStep(1)
  \/ UnlinkStep(1)
  \/ DoBoot(1)
  \/ Stop(1)
  \/ Reboot(1)
  \/ TerminateStep(1)
  \/ ResumeStep
  \/ CancelSteps
SpecSets == Init /\ [][NextSets]_vars

\* one calling coroutine that emits, boots and calls stop(empty_queue=False),
\* next to both pipelines on a transport that raises nothing: the queues are
\* never replaced, so emit_unfinished counts the frames put and not yet
\* written
NextKeep ==
  \/ \E m \in {BIND, CONNECT} : DoLink(1, m, First)
  \/ DoEmit(1, MaxEmit)
  \/ DoBoot(1)
  \/ DoStop(1, "stop", FALSE, AnyOrder, TRUE)
  \/ Resume
  \/ \E t \in TaskIds :
       \/ TaskStart(t) \/ EmitWake(t) \/ EmitSent(t) \/ Deliver(t, MaxDeliver)
       \/ Cancelled(t)
SpecKeep == Init /\ [][NextKeep]_vars

\* one calling coroutine that links, unlinks, boots and stops
NextPipes ==
  \/ LinkStep(1)
  \/ UnlinkStep(1)
  \/ DoBoot(1)
  \/ Stop(1)
  \/ Resume
  \/ \E t \in TaskIds : TaskStart(t) \/ Cancelled(t) \/ Fault(t)
SpecPipes == Init /\ [][NextPipes]_vars

\* ------------------------------------------------------------- the actor
\* AbstractActor.SOCKET_TYPES, and the types a caller may pass: the nine and
\* one that is not among them
SOCKET_TYPES ==
  {"PAIR", "PUB", "SUB", "REQ", "REP", "DEALER", "ROUTER", "PUSH", "PULL"}
SocketTypes == SOCKET_TYPES \cup {"XPUB"}

Formats == {"bytes", "json", "msgpack", "pickle"}

NoVal == <<"none", 0>>

\* ------------------------------------------------------------ serializers
\* A message is an object of Python: an integer, a string (here the string
\* of the digits of n), a mapping of one key, a string or an integer, to an
\* integer, a list of integers, or None.  Bytes are a sequence of tokens
Obj(kind, n, keys, vals) ==
  [kind |-> kind, n |-> n, keys |-> keys, vals |-> vals]
IntObj(n)          == Obj("int", n, <<>>, <<>>)
StrObj(n)          == Obj("str", n, <<>>, <<>>)
MapObj(keys, vals) == Obj("map", 0, keys, vals)
ListObj(vals)      == Obj("list", 0, <<>>, vals)
NoneObj            == Obj("None", 0, <<>>, <<>>)

Ints == 0..MaxInt
RECURSIVE SeqsUpTo(_, _)
SeqsUpTo(S, n) ==
  IF n = 0 THEN {<<>>}
  ELSE LET shorter == SeqsUpTo(S, n - 1) IN
       shorter \cup {Append(q, x) : q \in shorter, x \in S}

\* the messages of the callers
Values ==
  {IntObj(n) : n \in Ints} \cup {StrObj(n) : n \in Ints}
    \cup {MapObj(<<>>, <<>>)}
    \cup {MapObj(<<<<k, n>>>>, <<v>>) : k \in {"str", "int"}, n \in Ints,
                                       v \in Ints}
    \cup {ListObj(q) : q \in SeqsUpTo(Ints, MaxItems)}

\* the numbers a decoder can read
Nums       == 0..(MaxInt + MaxItems + ActorFrames + NumMessages)
NumTokens  == {ToString(n) : n \in Nums}
Num(tok)   == CHOOSE n \in Nums : ToString(n) = tok

Ok(v)    == [exc |-> "ok", val |-> <<"object", v>>]
Bad(exc) == [exc |-> exc, val |-> NoVal]

\* msgspec.json.Encoder.encode: a key of a mapping is written as a string,
\* whatever it is
Q == "\""
RECURSIVE JsonItems(_)
JsonItems(vals) ==
  IF vals = <<>> THEN <<>>
  ELSE <<ToString(Head(vals))>>
         \o (IF Len(vals) > 1 THEN <<",">> ELSE <<>>)
         \o JsonItems(Tail(vals))

RECURSIVE JsonEntries(_, _)
JsonEntries(keys, vals) ==
  IF keys = <<>> THEN <<>>
  ELSE <<Q, ToString(Head(keys)[2]), Q, ":", ToString(Head(vals))>>
         \o (IF Len(keys) > 1 THEN <<",">> ELSE <<>>)
         \o JsonEntries(Tail(keys), Tail(vals))

\* an encoder that writes a string without its quotes
JsonEncode_Unquoted(v) ==
  CASE v.kind = "int"  -> <<ToString(v.n)>>
    [] v.kind = "str"  -> <<ToString(v.n)>>
    [] v.kind = "map"  -> <<"{">> \o JsonEntries(v.keys, v.vals) \o <<"}">>
    [] v.kind = "list" -> <<"[">> \o JsonItems(v.vals) \o <<"]">>
    [] v.kind = "None" -> <<"null">>

JsonEncode(v) ==
  CASE v.kind = "int"  -> <<ToString(v.n)>>
    [] v.kind = "str"  -> <<Q, ToString(v.n), Q>>
    [] v.kind = "map"  -> <<"{">> \o JsonEntries(v.keys, v.vals) \o <<"}">>
    [] v.kind = "list" -> <<"[">> \o JsonItems(v.vals) \o <<"]">>
    [] v.kind = "None" -> <<"null">>

\* msgspec.json.Decoder.decode: the whole input is one JSON value, or
\* DecodeError
RECURSIVE JsonParseItems(_, _)
JsonParseItems(toks, vals) ==
  IF Len(toks) >= 2 /\ toks[1] \in NumTokens
  THEN IF toks[2] = "]"
       THEN IF Len(toks) = 2 THEN Ok(ListObj(Append(vals, Num(toks[1]))))
            ELSE Bad("DecodeError")
       ELSE IF toks[2] = ","
       THEN JsonParseItems(SubSeq(toks, 3, Len(toks)),
                           Append(vals, Num(toks[1])))
       ELSE Bad("DecodeError")
  ELSE Bad("DecodeError")

RECURSIVE JsonParseEntries(_, _, _)
JsonParseEntries(toks, keys, vals) ==
  IF /\ Len(toks) >= 6
     /\ toks[1] = Q /\ toks[2] \in NumTokens /\ toks[3] = Q /\ toks[4] = ":"
     /\ toks[5] \in NumTokens
  THEN LET ks == Append(keys, <<"str", Num(toks[2])>>)
           vs == Append(vals, Num(toks[5]))
       IN  IF toks[6] = "}"
           THEN IF Len(toks) = 6 THEN Ok(MapObj(ks, vs))
                ELSE Bad("DecodeError")
           ELSE IF toks[6] = ","
           THEN JsonParseEntries(SubSeq(toks, 7, Len(toks)), ks, vs)
           ELSE Bad("DecodeError")
  ELSE Bad("DecodeError")

JsonParse(data) ==
  IF data = <<>> THEN Bad("DecodeError")
  ELSE IF data[1] \in NumTokens
  THEN IF Len(data) = 1 THEN Ok(IntObj(Num(data[1]))) ELSE Bad("DecodeError")
  ELSE IF data[1] = Q
  THEN IF Len(data) = 3 /\ data[2] \in NumTokens /\ data[3] = Q
       THEN Ok(StrObj(Num(data[2]))) ELSE Bad("DecodeError")
  ELSE IF data[1] = "null"
  THEN IF Len(data) = 1 THEN Ok(NoneObj) ELSE Bad("DecodeError")
  ELSE IF data[1] = "["
  THEN IF data = <<"[", "]">> THEN Ok(ListObj(<<>>))
       ELSE JsonParseItems(Tail(data), <<>>)
  ELSE IF data[1] = "{"
  THEN IF data = <<"{", "}">> THEN Ok(MapObj(<<>>, <<>>))
       ELSE JsonParseEntries(Tail(data), <<>>, <<>>)
  ELSE Bad("DecodeError")

\* Json.decode that lets the DecodeError pass
JsonDecode_Raises(data) == JsonParse(data)

\* Json.decode: `except DecodeError: return None`
JsonDecode(data) ==
  LET r == JsonParse(data) IN
  IF r.exc = "DecodeError" THEN Ok(NoneObj) ELSE r

\* The binary formats write a type code before every value, and the number
\* of the elements before those of a mapping or a list
MsgpackCodes ==
  [int |-> "int", str |-> "str", map |-> "map", list |-> "array",
   none |-> "nil"]
PickleCodes ==
  [int |-> "BININT", str |-> "BINUNICODE", map |-> "DICT", list |-> "LIST",
   none |-> "NONE"]

RECURSIVE BinItems(_, _)
BinItems(code, vals) ==
  IF vals = <<>> THEN <<>>
  ELSE <<code.int, ToString(Head(vals))>> \o BinItems(code, Tail(vals))

RECURSIVE BinEntries(_, _, _)
BinEntries(code, keys, vals) ==
  IF keys = <<>> THEN <<>>
  ELSE <<code[Head(keys)[1]], ToString(Head(keys)[2]),
         code.int, ToString(Head(vals))>>
         \o BinEntries(code, Tail(keys), Tail(vals))

BinEncode(code, v) ==
  CASE v.kind = "int"  -> <<code.int, ToString(v.n)>>
    [] v.kind = "str"  -> <<code.str, ToString(v.n)>>
    [] v.kind = "map"  -> <<code.map, ToString(Len(v.keys))>>
                            \o BinEntries(code, v.keys, v.vals)
    [] v.kind = "list" -> <<code.list, ToString(Len(v.vals))>>
                            \o BinItems(code, v.vals)
    [] v.kind = "None" -> <<code.none>>

RECURSIVE BinParseItems(_, _, _, _, _)
BinParseItems(code, exc, toks, k, vals) ==
  IF k = 0
  THEN IF toks = <<>> THEN Ok(ListObj(vals)) ELSE Bad(exc)
  ELSE IF Len(toks) >= 2 /\ toks[1] = code.int /\ toks[2] \in NumTokens
  THEN BinParseItems(code, exc, SubSeq(toks, 3, Len(toks)), k - 1,
                     Append(vals, Num(toks[2])))
  ELSE Bad(exc)

RECURSIVE BinParseEntries(_, _, _, _, _, _)
BinParseEntries(code, exc, toks, k, keys, vals) ==
  IF k = 0
  THEN IF toks = <<>> THEN Ok(MapObj(keys, vals)) ELSE Bad(exc)
  ELSE IF /\ Len(toks) >= 4
          /\ toks[1] \in {code.int, code.str} /\ toks[2] \in NumTokens
          /\ toks[3] = code.int /\ toks[4] \in NumTokens
  THEN BinParseEntries(code, exc, SubSeq(toks, 5, Len(toks)), k - 1,
         Append(keys, <<IF toks[1] = code.int THEN "int" ELSE "str",
                        Num(toks[2])>>),
         Append(vals, Num(toks[4])))
  ELSE Bad(exc)

BinParse(code, exc, data) ==
  IF data = <<>> THEN Bad(exc)
  ELSE IF data[1] = code.none
  THEN IF Len(data) = 1 THEN Ok(NoneObj) ELSE Bad(exc)
  ELSE IF Len(data) < 2 \/ data[2] \notin NumTokens THEN Bad(exc)
  ELSE IF data[1] = code.int
  THEN IF Len(data) = 2 THEN Ok(IntObj(Num(data[2]))) ELSE Bad(exc)
  ELSE IF data[1] = code.str
  THEN IF Len(data) = 2 THEN Ok(StrObj(Num(data[2]))) ELSE Bad(exc)
  ELSE IF data[1] = code.list
  THEN BinParseItems(code, exc, SubSeq(data, 3, Len(data)), Num(data[2]),
                     <<>>)
  ELSE IF data[1] = code.map
  THEN BinParseEntries(code, exc, SubSeq(data, 3, Len(data)), Num(data[2]),
                       <<>>, <<>>)
  ELSE Bad(exc)

\* msgspec.msgpack.Encoder.encode and Decoder.decode
MsgpackEncode(v)    == BinEncode(MsgpackCodes, v)
MsgpackDecode(data) == BinParse(MsgpackCodes, "DecodeError", data)

\* pickle.dumps(obj, protocol=HIGHEST_PROTOCOL) and pickle.loads: the
\* pickle begins with the protocol and ends with the STOP code
PickleEncode(v) == <<"PROTO">> \o BinEncode(PickleCodes, v) \o <<"STOP">>
PickleDecode(data) ==
  IF Len(data) >= 2 /\ data[1] = "PROTO" /\ data[Len(data)] = "STOP"
  THEN BinParse(PickleCodes, "UnpicklingError",
                SubSeq(data, 2, Len(data) - 1))
  ELSE Bad("UnpicklingError")

\* bytes(message) and serializer.encode(obj=message)
Encode(fmt, obj) ==
  CASE fmt = "bytes"   -> obj
    [] fmt = "json"    -> JsonEncode(obj)
    [] fmt = "msgpack" -> MsgpackEncode(obj)
    [] fmt = "pickle"  -> PickleEncode(obj)

\* serializer.decode(data=...); recv_bytes returns the bytes as they are
Decode(fmt, data) ==
  CASE fmt = "bytes"   -> [exc |-> "ok", val |-> <<"bytes", data>>]
    [] fmt = "json"    -> JsonDecode(data)
    [] fmt = "msgpack" -> MsgpackDecode(data)
    [] fmt = "pickle"  -> PickleDecode(data)

\* the variables a serializer does not touch
notCodec ==
  <<endpoints, emit_queue, recv_queue, emit_unfinished, emit_task, recv_task,
    tasks, waiters, socket, subscriptions, ncalls, after_close, sent, n_emit,
    n_deliv, returned, discarded, last, socket_managers, actor_call,
    actor_last, n_sockets, context, runner, pubsub, built>>

Serializers == {"json", "msgpack", "pickle"}

\* serializer.encode(obj=v), as _emit calls it
CodecEncode(fmt, v) ==
  /\ codec.pc = "idle"
  /\ codec' = [NoCodec EXCEPT !.pc = "encoded", !.fmt = fmt, !.obj = v,
                              !.data = Encode(fmt, v)]
  /\ UNCHANGED notCodec

\* the bytes lose their end on the way
CodecCut ==
  /\ codec.pc = "encoded"
  /\ ~codec.cut
  /\ codec' = [codec EXCEPT !.cut = TRUE,
                            !.data = SubSeq(@, 1, Len(@) - 1)]
  /\ UNCHANGED notCodec

\* serializer.decode(data=...), as _recv calls it
CodecDecode ==
  /\ codec.pc = "encoded"
  /\ codec' = [codec EXCEPT !.pc = "decoded",
                            !.out = Decode(codec.fmt, codec.data)]
  /\ UNCHANGED notCodec

\* a serializer encodes a message, and decodes the bytes, whole or cut
NextCodec ==
  \/ \E fmt \in Serializers, v \in Values : CodecEncode(fmt, v)
  \/ CodecCut
  \/ CodecDecode
SpecCodec == Init /\ [][NextCodec]_vars

\* the message of the n-th emit of a manager: bytes for emit_bytes, an
\* integer for the serializers
Message(fmt, n) == IF fmt = "bytes" THEN <<ToString(n)>> ELSE IntObj(n)


\* the place of `name` among the keys of the dict, 0 if it is not a key
Index(sms, name) ==
  IF \E i \in 1..Len(sms) : sms[i].name = name
  THEN CHOOSE i \in 1..Len(sms) : sms[i].name = name
  ELSE 0

SetManager(sms, i, s) == [sms EXCEPT ![i].sm = Settle(s)]

\* del self.socket_managers[name]
RemoveAt(sms, i) == SubSeq(sms, 1, i - 1) \o SubSeq(sms, i + 1, Len(sms))

mgrVars == <<endpoints, emit_queue, recv_queue, emit_unfinished, emit_task,
             recv_task, tasks, waiters, socket, subscriptions, ncalls,
             after_close, sent, n_emit, n_deliv, returned, discarded, last>>

ActorCommitAll(sms, call, lst, n, ctx, run) ==
  /\ socket_managers' = sms
  /\ actor_call' = call
  /\ actor_last' = lst
  /\ n_sockets' = n
  /\ context' = ctx
  /\ runner' = run
  /\ UNCHANGED <<codec, pubsub, built>>
  /\ UNCHANGED mgrVars

ActorCommit(sms, call, lst, n) ==
  ActorCommitAll(sms, call, lst, n, context, runner)

\* the one coroutine that calls the actor is not suspended in a call
Idle == actor_call = NoActorCall

\* _create_socket_manager that stores the new manager without looking at the
\* names in use
CreateSocketManager_Replaces(name, socket_type) ==
  /\ Idle
  /\ LET i == Index(socket_managers, name) IN
     IF socket_type \notin SOCKET_TYPES
     THEN ActorCommit(socket_managers, NoActorCall,
                      ActorLast("create", name, "ValueError",
                                <<socket_type, 0>>), 0)
     ELSE ActorCommit(IF i # 0
                      THEN [socket_managers EXCEPT ![i].sm = NewManager]
                      ELSE Append(socket_managers,
                                  [name |-> name, sm |-> NewManager]),
                      NoActorCall,
                      ActorLast("create", name, "ok", <<socket_type, 0>>), 1)

\* AbstractActor._create_socket_manager, behind create_socket_manager and
\* create_<type>_socket_manager
CreateSocketManager(name, socket_type) ==
  /\ Idle
  /\ IF Index(socket_managers, name) # 0 \/ socket_type \notin SOCKET_TYPES
     THEN ActorCommit(socket_managers, NoActorCall,
                      ActorLast("create", name, "ValueError",
                                <<socket_type, 0>>), 0)
     ELSE IF context = "terminated"
     THEN \* self._context.socket(...) on a context after term()
          ActorCommit(socket_managers, NoActorCall,
                      ActorLast("create", name, "ZMQError",
                                <<socket_type, 0>>), 0)
     ELSE ActorCommit(Append(socket_managers,
                             [name |-> name, sm |-> NewManager]),
                      NoActorCall,
                      ActorLast("create", name, "ok", <<socket_type, 0>>), 1)

\* actor[name].bind_via_*(...) and actor[name].connect_via_*(...)
ActorLink(name, m, e) ==
  /\ Idle
  /\ LET i == Index(socket_managers, name) IN
     IF i = 0
     THEN ActorCommit(socket_managers, NoActorCall,
                      ActorLast("link", name, "KeyError", NoVal), 0)
     ELSE LET s == Link(socket_managers[i].sm, m, e) IN
          ActorCommit(SetManager(socket_managers, i, s), NoActorCall,
                      ActorLast("link", name, s.exc, NoVal), 0)

\* actor[name].unbind(endpoint) and actor[name].disconnect(endpoint)
ActorUnlink(name, m, e, strict) ==
  /\ Idle
  /\ LET i == Index(socket_managers, name) IN
     IF i = 0
     THEN ActorCommit(socket_managers, NoActorCall,
                      ActorLast("unlink", name, "KeyError", NoVal), 0)
     ELSE LET s == Unlink(socket_managers[i].sm, m, e, strict) IN
          ActorCommit(SetManager(socket_managers, i, s), NoActorCall,
                      ActorLast("unlink", name, s.exc, NoVal), 0)

\* SocketManager.emit: the frame is put on the emit queue
Emit(s, frame) ==
  [s EXCEPT !.emit_queue = Append(@, frame),
            !.emit_unfinished = @ + 1,
            !.n_emit = @ + 1]

\* the frames emitted on, and delivered to, the managers of the dict
RECURSIVE Emitted(_)
Emitted(sms) ==
  IF sms = <<>> THEN 0 ELSE Head(sms).sm.n_emit + Emitted(Tail(sms))

RECURSIVE Delivered(_)
Delivered(sms) ==
  IF sms = <<>> THEN 0 ELSE Head(sms).sm.n_deliv + Delivered(Tail(sms))

\* emit_<format> that drops the message when the name is not a key
ActorEmit_Silent(fmt, name) ==
  /\ Idle
  /\ LET i == Index(socket_managers, name) IN
     IF i = 0
     THEN ActorCommit(socket_managers, NoActorCall,
                      ActorLast("emit", name, "ok", NoVal), 0)
     ELSE /\ Emitted(socket_managers) < ActorFrames
          /\ LET s0 == socket_managers[i].sm
                 s  == Emit(s0, <<Topic, Encode(fmt, Message(fmt, s0.n_emit + 1))>>)
             IN  ActorCommit(SetManager(socket_managers, i, s), NoActorCall,
                             ActorLast("emit", name, "ok", NoVal), 0)

\* emit_bytes, emit_json, emit_msgpack and emit_pickle: the subscript raises
\* before the message is encoded
ActorEmit(fmt, name) ==
  /\ Idle
  /\ LET i == Index(socket_managers, name) IN
     IF i = 0
     THEN ActorCommit(socket_managers, NoActorCall,
                      ActorLast("emit", name, "KeyError", NoVal), 0)
     ELSE /\ Emitted(socket_managers) < ActorFrames
          /\ LET s0 == socket_managers[i].sm
                 s  == Emit(s0, <<Topic, Encode(fmt, Message(fmt, s0.n_emit + 1))>>)
             IN  ActorCommit(SetManager(socket_managers, i, s), NoActorCall,
                             ActorLast("emit", name, "ok", NoVal), 0)

\* the caller of recv_<format> gets the head of the receive queue, decoded
ActorRecvTake(sms, i, fmt) ==
  LET s0 == sms[i].sm
      d  == Decode(fmt, Head(s0.recv_queue))
  IN  ActorCommit(SetManager(sms, i, RecvTake(s0)), NoActorCall,
                  [ActorLast("recv", sms[i].name, d.exc, d.val) EXCEPT
                     !.fmt = fmt], 0)

\* recv_bytes, recv_json, recv_msgpack and recv_pickle
ActorRecv(fmt, name) ==
  /\ Idle
  /\ LET i == Index(socket_managers, name) IN
     IF i = 0
     THEN ActorCommit(socket_managers, NoActorCall,
                      ActorLast("recv", name, "KeyError", NoVal), 0)
     ELSE IF socket_managers[i].sm.recv_queue # <<>>
     THEN ActorRecvTake(socket_managers, i, fmt)
     ELSE ActorCommit(
            [socket_managers EXCEPT ![i].sm.waiters =
               @ (+) SetToBag({Waiter("recv_get", "recv", FALSE, None)})],
            [op |-> "recv", i |-> i, fmt |-> fmt], NoActorLast, 0)

\* the caller waiting in recv_<format> is resumed by a put on the queue
ActorRecvWake ==
  /\ actor_call.op = "recv"
  /\ LET i == actor_call.i
         w == Waiter("recv_get", "recv", FALSE, None)
     IN  /\ BagIn(w, socket_managers[i].sm.waiters)
         /\ socket_managers[i].sm.recv_queue # <<>>
         /\ ActorRecvTake(
              [socket_managers EXCEPT ![i].sm.waiters = @ (-) SetToBag({w})],
              i, actor_call.fmt)

\* the manager operation behind an operation of the actor
ManagerOp(op) ==
  CASE op = "boot_socket_managers"      -> "boot"
    [] op = "stop_socket_managers"      -> "stop"
    [] op = "reboot_socket_managers"    -> "reboot"
    [] op = "terminate_socket_managers" -> "terminate"
    [] op = "remove_socket_manager"     -> "terminate"

BulkOps == {"boot_socket_managers", "stop_socket_managers",
            "reboot_socket_managers", "terminate_socket_managers"}

\* the call of a manager's boot(), stop(empty_queue=False), reboot() or
\* terminate() by the actor, up to its first suspension or its return
CallManager(s, op, strict) ==
  IF op = "boot"
  THEN [Boot(s) EXCEPT !.last = Call("boot", "none", 0, FALSE, "ok")]
  ELSE FromStopEmitting([s EXCEPT !.cur = [op |-> op, eq |-> op # "stop"]],
                        AnyOrder, strict)

Outcome(sms, i, exc, overflow) ==
  [sms |-> sms, i |-> i, exc |-> exc, overflow |-> overflow, val |-> NoVal]

\* what terminate() has left of manager s
Terminated(s) ==
  /\ s.socket.closed
  /\ s.socket.bind = {} /\ s.socket.connect = {}
  /\ s.emit_task = None /\ s.recv_task = None
  /\ \A t \in TaskIds : s.tasks[t].st = "free"

\* the loop `for name, socket_manager in self.socket_managers.items()` of a
\* bulk operation: BulkFrom from the i-th manager on, BulkAfter from the
\* point where the call of the i-th manager has got to s.  The loop ends
\* with the dict exhausted, at the first call that raises, or it is
\* suspended in the i-th manager
RECURSIVE BulkFrom(_, _, _, _), BulkAfter(_, _, _, _, _)
BulkFrom(sms, op, i, strict) ==
  IF i > Len(sms) THEN Outcome(sms, 0, "ok", FALSE)
  ELSE BulkAfter(sms, op, i, CallManager(sms[i].sm, op, strict), strict)

BulkAfter(sms, op, i, s, strict) ==
  IF s.overflow THEN Outcome(sms, 0, "ok", TRUE)
  ELSE IF s.susp THEN Outcome(SetManager(sms, i, s), i, "ok", FALSE)
  ELSE IF s.last.res # "ok"
       THEN Outcome(SetManager(sms, i, s), 0, s.last.res, FALSE)
  ELSE BulkFrom(SetManager(sms, i, s), op, i + 1, strict)

\* remove_socket_manager from the point where terminate() of the manager has
\* got to s: the entry is deleted when terminate() has returned
RemoveAfter(sms, i, s) ==
  IF s.overflow THEN Outcome(sms, 0, "ok", TRUE)
  ELSE IF s.susp THEN Outcome(SetManager(sms, i, s), i, "ok", FALSE)
  ELSE IF s.last.res # "ok"
       THEN Outcome(SetManager(sms, i, s), 0, s.last.res, FALSE)
  ELSE [Outcome(RemoveAt(sms, i), 0, "ok", FALSE) EXCEPT
          !.val = <<IF Terminated(s) THEN "terminated" ELSE "live", 0>>]

\* the caller of the actor is suspended in the manager r.i, or its call
\* returns or raises
ActorOutcome(op, name, r) ==
  /\ ~r.overflow
  /\ IF r.i # 0
     THEN ActorCommit(r.sms, [op |-> op, i |-> r.i, fmt |-> "none"],
                      NoActorLast, 0)
     ELSE ActorCommit(r.sms, NoActorCall, ActorLast(op, name, r.exc, r.val), 0)

\* remove_socket_manager(name)
RemoveSocketManager(name, strict) ==
  /\ Idle
  /\ LET i == Index(socket_managers, name) IN
     IF i = 0
     THEN ActorCommit(socket_managers, NoActorCall,
                      ActorLast("remove_socket_manager", name, "KeyError",
                                NoVal), 0)
     ELSE ActorOutcome("remove_socket_manager", name,
            RemoveAfter(socket_managers, i,
              CallManager(socket_managers[i].sm, "terminate", strict)))

\* boot_socket_managers(), stop_socket_managers(), reboot_socket_managers()
\* and terminate_socket_managers()
Bulk(op, strict) ==
  /\ Idle
  /\ ActorOutcome(op, 0, BulkFrom(socket_managers, ManagerOp(op), 1, strict))

\* the task the actor's caller awaits inside a manager has ended: the
\* manager's call runs on, and after it the call of the actor
ActorResume(strict) ==
  /\ actor_call.op \in BulkOps \cup {"remove_socket_manager"}
  /\ LET i  == actor_call.i
         s0 == socket_managers[i].sm
     IN  \E w \in BagToSet(s0.waiters) :
           /\ w.pc \in {"await_emit", "await_recv"}
           /\ w.task = Finished
           /\ LET s == IF w.pc = "await_emit"
                       THEN ResumedEmit(s0, w, AnyOrder, strict)
                       ELSE ResumedRecv(s0, w, AnyOrder, strict)
              IN  IF actor_call.op = "remove_socket_manager"
                  THEN ActorOutcome(actor_call.op, socket_managers[i].name,
                                    RemoveAfter(socket_managers, i, s))
                  ELSE ActorOutcome(actor_call.op, 0,
                         BulkAfter(socket_managers, ManagerOp(actor_call.op),
                                   i, s, strict))

\* AbstractActor.terminate from the point where terminate_socket_managers()
\* has got to r: when that has returned, self._context.term() and
\* `self.socket_managers = {}`
TerminateResult(r) ==
  IF r.i # 0
  THEN [sms |-> r.sms, call |-> [op |-> "terminate", i |-> r.i, fmt |-> "none"],
        last |-> NoActorLast, ctx |-> context]
  ELSE IF r.exc # "ok"
  THEN [sms |-> r.sms, call |-> NoActorCall,
        last |-> ActorLast("terminate", 0, r.exc, NoVal), ctx |-> context]
  ELSE [sms |-> <<>>, call |-> NoActorCall,
        last |-> ActorLast("terminate", 0, "ok",
                   <<IF \A i \in DOMAIN r.sms : Terminated(r.sms[i].sm)
                     THEN "terminated" ELSE "live", Len(r.sms)>>),
        ctx |-> "terminated"]

TerminateOutcome(r) ==
  /\ ~r.overflow
  /\ LET res == TerminateResult(r) IN
     ActorCommitAll(res.sms, res.call, res.last, 0, res.ctx, runner)

\* AbstractActor.terminate()
ActorTerminate(strict) ==
  /\ Idle
  /\ TerminateOutcome(BulkFrom(socket_managers, "terminate", 1, strict))

\* the task the caller of terminate() awaits inside a manager has ended
ActorTerminateResume(strict) ==
  /\ actor_call.op = "terminate"
  /\ LET i  == actor_call.i
         s0 == socket_managers[i].sm
     IN  \E w \in BagToSet(s0.waiters) :
           /\ w.pc \in {"await_emit", "await_recv"}
           /\ w.task = Finished
           /\ TerminateOutcome(
                BulkAfter(socket_managers, "terminate", i,
                          IF w.pc = "await_emit"
                          THEN ResumedEmit(s0, w, AnyOrder, strict)
                          ELSE ResumedRecv(s0, w, AnyOrder, strict),
                          strict))

\* --------------------------------------------------------------- runner
\* what asyncio.run does before it closes its loop: every task of the loop
\* is cancelled and run to its end, the main coroutine included
RECURSIVE CancelAllTasks(_, _)
CancelAllTasks(s, ts) ==
  IF ts = {} THEN s
  ELSE LET t == CHOOSE u \in ts : TRUE IN
       CancelAllTasks(IF Alive(s, t) THEN Finish(s, t) ELSE s, ts \ {t})

CloseLoop(sms) ==
  [i \in DOMAIN sms |->
     [sms[i] EXCEPT !.sm = [CancelAllTasks(@, TaskIds) EXCEPT
                              !.waiters = EmptyBag]]]

\* the main coroutine is abandoned where it is, the tasks of the loop stay
\* as they are: run_until_complete left by a KeyboardInterrupt
LeaveLoop(sms) ==
  [i \in DOMAIN sms |-> [sms[i] EXCEPT !.sm.waiters = EmptyBag]]

\* run(main=actor.terminate()): terminate() as the main coroutine of a new
\* loop.  Where it awaits a task that has not ended, a task of another loop,
\* the await raises RuntimeError, which stop_emitting and stop_receiving
\* pass on after `finally: self._emit_task = None`
RunTerminateResult(r) ==
  IF r.i # 0
  THEN LET s == r.sms[r.i].sm
           w == CHOOSE v \in BagToSet(s.waiters) : TRUE
       IN  [sms |-> SetManager(r.sms, r.i,
                      [s EXCEPT !.waiters = EmptyBag,
                                !.emit_task = IF w.pc = "await_emit"
                                              THEN None ELSE @,
                                !.recv_task = IF w.pc = "await_recv"
                                              THEN None ELSE @]),
            call |-> NoActorCall,
            last |-> ActorLast("terminate", 0, "RuntimeError", NoVal),
            ctx |-> context]
  ELSE TerminateResult(r)

RunTerminate(sms) == RunTerminateResult(BulkFrom(sms, "terminate", 1, TRUE))

\* start_actor(actor, event_loop) up to the point where actor.start() runs in
\* the loop; start() begins with boot_socket_managers()
RunStart(loop) ==
  /\ runner.pc = "idle"
  /\ Idle
  /\ LET r == BulkFrom(socket_managers, "boot", 1, TRUE) IN
     /\ ~r.overflow
     /\ ActorCommitAll(r.sms, NoActorCall, NoActorLast, 0, context,
                       [pc |-> "start", loop |-> loop])

\* the rest of start_actor from the end of the run of actor.start()
RunCommit(res) ==
  ActorCommitAll(res.sms, res.call, res.last, 0, res.ctx,
                 [runner EXCEPT !.pc = IF res.last.res = "ok"
                                       THEN "returned" ELSE "raised"])

RunEnd(interrupted) ==
  IF runner.loop = "supplied" /\ ~interrupted
  THEN \* run_until_complete has returned: nothing follows
       ActorCommitAll(socket_managers, actor_call, NoActorLast, 0, context,
                      [runner EXCEPT !.pc = "returned"])
  ELSE RunCommit(RunTerminate(IF runner.loop = "supplied"
                              THEN LeaveLoop(socket_managers)
                              ELSE CloseLoop(socket_managers)))

\* actor.start() returns
RunReturn ==
  /\ runner.pc = "start"
  /\ Idle
  /\ RunEnd(FALSE)

\* KeyboardInterrupt while actor.start() runs
RunInterrupt ==
  /\ runner.pc = "start"
  /\ RunEnd(TRUE)

\* a step of pipeline task t of the i-th manager
ManagerStep(i, s) ==
  /\ ~s.overflow
  /\ ActorCommit(SetManager(socket_managers, i, s), actor_call, NoActorLast, 0)

ActorTaskStart(i, t) ==
  /\ i \in DOMAIN socket_managers
  /\ LET s == socket_managers[i].sm IN
     /\ s.tasks[t].st = "ready"
     /\ ManagerStep(i, IF s.tasks[t].kind = "emit" THEN EmitGet(s, t)
                       ELSE RecvWait(s, t))

ActorEmitWake(i, t) ==
  /\ i \in DOMAIN socket_managers
  /\ LET s == socket_managers[i].sm IN
     /\ s.tasks[t].st = "get"
     /\ s.emit_queue # <<>>
     /\ ManagerStep(i, EmitGet(s, t))

ActorEmitSent(i, t) ==
  /\ i \in DOMAIN socket_managers
  /\ LET s == socket_managers[i].sm IN
     /\ s.tasks[t].st = "send"
     /\ ~s.socket.closed
     /\ ManagerStep(i, EmitSendDone(s, t))

\* the transport delivers a frame whose payload a peer has encoded
ActorDeliver(i, t, fmt) ==
  /\ i \in DOMAIN socket_managers
  /\ LET s == socket_managers[i].sm IN
     /\ s.tasks[t].st = "recvwait"
     /\ ~s.socket.closed
     /\ Delivered(socket_managers) < ActorFrames
     /\ ManagerStep(i, RecvFrame([s EXCEPT !.n_deliv = @ + 1], t,
                                 <<Topic, Encode(fmt, Message(fmt, s.n_deliv + 1))>>))

\* the transport delivers a frame with the payload data, whatever it is
ActorDeliverData(i, t, data) ==
  /\ i \in DOMAIN socket_managers
  /\ LET s == socket_managers[i].sm IN
     /\ s.tasks[t].st = "recvwait"
     /\ ~s.socket.closed
     /\ Delivered(socket_managers) < ActorFrames
     /\ ManagerStep(i, RecvFrame([s EXCEPT !.n_deliv = @ + 1], t,
                                 <<Topic, data>>))

ActorFault(i, t) ==
  /\ i \in DOMAIN socket_managers
  /\ LET s == socket_managers[i].sm IN
     /\ s.tasks[t].st \in {"send", "recvwait"}
     /\ ManagerStep(i, Finish(s, t))

ActorCancelled(i, t) ==
  /\ i \in DOMAIN socket_managers
  /\ LET s == socket_managers[i].sm IN
     /\ s.tasks[t].st = "cancelling"
     /\ ManagerStep(i, Finish(s, t))

\* the steps of the pipelines of the managers of an actor
ActorTasks(fmts) ==
  \E i \in Names, t \in TaskIds :
    \/ ActorTaskStart(i, t) \/ ActorEmitWake(i, t) \/ ActorEmitSent(i, t)
    \/ \E fmt \in fmts : ActorDeliver(i, t, fmt)
    \/ ActorCancelled(i, t) \/ ActorFault(i, t)

\* one coroutine that creates and removes managers, binds them and emits on
\* them; no pipeline is started
NextCreate ==
  \/ \E name \in Names, socket_type \in SocketTypes :
       CreateSocketManager(name, socket_type)
  \/ \E name \in Names : RemoveSocketManager(name, TRUE)
  \/ \E name \in Names : ActorLink(name, BIND, First)
  \/ \E name \in Names : ActorEmit("bytes", name)
SpecCreate == Init /\ [][NextCreate]_vars

\* one coroutine that emits and receives by name in every format, where one
\* of the names is the name of a manager that connects and receives
NextNames ==
  \/ CreateSocketManager(1, "PAIR")
  \/ \E name \in Names : ActorLink(name, CONNECT, First)
  \/ \E fmt \in Formats, name \in Names : ActorEmit(fmt, name)
  \/ \E fmt \in Formats, name \in Names : ActorRecv(fmt, name)
  \/ ActorRecvWake
  \/ Bulk("boot_socket_managers", TRUE)
  \/ \E i \in Names, t \in TaskIds :
       \/ ActorTaskStart(i, t)
       \/ \E fmt \in Formats : ActorDeliver(i, t, fmt)
       \/ ActorFault(i, t)
SpecNames == Init /\ [][NextNames]_vars

\* one coroutine that removes managers which were linked, unlinked, emitted
\* on and booted, next to the emit pipelines
NextRemove ==
  \/ \E name \in Names : CreateSocketManager(name, "PAIR")
  \/ \E name \in Names, strict \in BOOLEAN : RemoveSocketManager(name, strict)
  \/ \E name \in Names, m \in {BIND, CONNECT} : ActorLink(name, m, First)
  \/ \E name \in Names, strict \in BOOLEAN :
       ActorUnlink(name, UNBIND, First, strict)
  \/ \E name \in Names : ActorEmit("bytes", name)
  \/ Bulk("boot_socket_managers", TRUE)
  \/ \E strict \in BOOLEAN : ActorResume(strict)
  \/ \E i \in Names, t \in TaskIds :
       \/ ActorTaskStart(i, t) \/ ActorEmitWake(i, t) \/ ActorEmitSent(i, t)
       \/ ActorCancelled(i, t) \/ ActorFault(i, t)
SpecRemove == Init /\ [][NextRemove]_vars

\* payloads of a peer: empty, the integer 1 in each format, and the bytes
\* of a list in each format without their end
PeerPayloads ==
  {<<>>}
    \cup {Encode(fmt, IntObj(1)) : fmt \in Serializers}
    \cup {LET data == Encode(fmt, ListObj(<<1>>)) IN
            SubSeq(data, 1, Len(data) - 1) : fmt \in Serializers}

\* one coroutine that receives in every format on a connected manager, to
\* which the transport delivers what a peer has sent
NextDecode ==
  \/ CreateSocketManager(1, "PAIR")
  \/ ActorLink(1, CONNECT, First)
  \/ Bulk("boot_socket_managers", TRUE)
  \/ \E fmt \in Formats : ActorRecv(fmt, 1)
  \/ ActorRecvWake
  \/ \E t \in TaskIds :
       \/ ActorTaskStart(1, t)
       \/ \E data \in PeerPayloads : ActorDeliverData(1, t, data)
SpecDecode == Init /\ [][NextDecode]_vars

\* ------------------------------------------------- endpoint builders
\* A string is a sequence of characters.  The parameters are strings of an
\* ordinary character and the two characters the builders separate with
Chars   == {"a", ":", ";"}
Strings == SeqsUpTo(Chars, MaxParamLen)

INPROC == <<"i", "n", "p", "r", "o", "c">>
IPC    == <<"i", "p", "c">>
UDP    == <<"u", "d", "p">>
TCP    == <<"t", "c", "p">>
PGM    == <<"p", "g", "m">>
EPGM   == <<"e", "p", "g", "m">>

\* f"{INPROC}://{reference}"
get_inproc_endpoint(reference) == INPROC \o <<":", "/", "/">> \o reference

\* f"{IPC}:///tmp/{reference}.ipc"
get_ipc_endpoint(reference) ==
  IPC \o <<":", "/", "/", "/", "t", "m", "p", "/">> \o reference
      \o <<".", "i", "p", "c">>

\* f"{UDP}://{ip_address}:{port}"
get_udp_endpoint(ip_address, port) ==
  UDP \o <<":", "/", "/">> \o ip_address \o <<":">> \o port

\* f"{TCP}://{ip_address}:{port}"
get_tcp_endpoint(ip_address, port) ==
  TCP \o <<":", "/", "/">> \o ip_address \o <<":">> \o port

\* f"{PGM}://{ip_address};{port}"
get_pgm_endpoint(ip_address, port) ==
  PGM \o <<":", "/", "/">> \o ip_address \o <<";">> \o port

\* a builder for EPGM that writes the scheme of PGM
get_epgm_endpoint_AsPgm(ip_address, port) ==
  PGM \o <<":", "/", "/">> \o ip_address \o <<";">> \o port

\* f"{EPGM}://{ip_address};{port}"
get_epgm_endpoint(ip_address, port) ==
  EPGM \o <<":", "/", "/">> \o ip_address \o <<";">> \o port

\* the calls of the builders: a scheme with a reference, or with an
\* ip_address and a port
BuilderCalls ==
  {[scheme |-> s, a |-> r, b |-> <<>>] :
     s \in {"inproc", "ipc"}, r \in Strings}
    \cup {[scheme |-> s, a |-> ip, b |-> port] :
            s \in {"udp", "tcp", "pgm", "epgm"}, ip \in Strings,
            port \in Strings}

EndpointOf(x) ==
  CASE x.scheme = "inproc" -> get_inproc_endpoint(x.a)
    [] x.scheme = "ipc"    -> get_ipc_endpoint(x.a)
    [] x.scheme = "udp"    -> get_udp_endpoint(x.a, x.b)
    [] x.scheme = "tcp"    -> get_tcp_endpoint(x.a, x.b)
    [] x.scheme = "pgm"    -> get_pgm_endpoint(x.a, x.b)
    [] x.scheme = "epgm"   -> get_epgm_endpoint(x.a, x.b)

notBuilt ==
  <<endpoints, emit_queue, recv_queue, emit_unfinished, emit_task, recv_task,
    tasks, waiters, socket, subscriptions, ncalls, after_close, sent, n_emit,
    n_deliv, returned, discarded, last, socket_managers, actor_call,
    actor_last, n_sockets, context, runner, codec, pubsub>>

\* a call of a builder
BuildEndpoint(x) ==
  /\ built.pc = "idle"
  /\ built' = [pc |-> "built", scheme |-> x.scheme, a |-> x.a, b |-> x.b,
               endpoint |-> EndpointOf(x)]
  /\ UNCHANGED notBuilt

NextBuild == \E x \in BuilderCalls : BuildEndpoint(x)
SpecBuild == Init /\ [][NextBuild]_vars

\* ------------------------------------------------- example/pub_sub.py
\* the messages of PubActor.start: the integers, then the string 'terminate'
\* (here a string of digits, as every string of a message)
Sentinel      == StrObj(NumMessages)
PubMessage(k) == IF k <= NumMessages THEN IntObj(k - 1) ELSE Sentinel
PubMessages   == [k \in 1..(NumMessages + 1) |-> PubMessage(k)]

\* a PUB socket hands a frame to the SUB socket that is connected to an
\* endpoint it is bound to and has subscribed to the topic of the frame
Routed(ps, frame) ==
  /\ ps.pub.socket.bind \cap ps.sub.socket.connect # {}
  /\ frame[1][2] \in ps.sub.socket.topics

\* sleep(5) at the end of PubActor.start is over: the example takes it to
\* be longer than the emit pipeline needs for the frames it was given
Quiet(s) ==
  /\ s.emit_queue = <<>>
  /\ \A t \in TaskIds : s.tasks[t].st \in {"free", "get"}

otherVars ==
  <<endpoints, emit_queue, recv_queue, emit_unfinished, emit_task, recv_task,
    tasks, waiters, socket, subscriptions, ncalls, after_close, sent, n_emit,
    n_deliv, returned, discarded, last, socket_managers, actor_call,
    actor_last, n_sockets, context, runner, codec, built>>

PubSubCommit(ps) ==
  /\ ~ps.pub.overflow /\ ~ps.sub.overflow
  /\ pubsub' = ps
  /\ UNCHANGED otherVars

\* PubActor.start: super().start(), which boots the managers
\* pub_service and sub_service: each constructs its actor, creates the
\* socket manager and links it (the subscriber subscribes first)
Services ==
  /\ pubsub.pub_pc = "none"
  /\ PubSubCommit(PubSubInit)

PubBoot ==
  /\ pubsub.pub_pc = "boot"
  /\ PubSubCommit([pubsub EXCEPT !.pub = Boot(@), !.pub_pc = "emit"])

\* PubActor.start: one emit_pickle of the loop, or the one after the loop
PubEmit ==
  /\ pubsub.pub_pc = "emit"
  /\ LET k == pubsub.emitted + 1 IN
     PubSubCommit([pubsub EXCEPT
       !.pub = Emit(@, <<Topic, Encode("pickle", PubMessage(k))>>),
       !.emitted = k,
       !.pub_pc = IF k = NumMessages + 1 THEN "sleep" ELSE "emit"])

\* PubActor.start returns after its last sleep, and start_actor, which ran
\* it in a loop of its own, terminates the actor
PubReturn ==
  /\ pubsub.pub_pc = "sleep"
  /\ Quiet(pubsub.pub)
  /\ PubSubCommit([pubsub EXCEPT
       !.pub = CallManager(CancelAllTasks(@, TaskIds), "terminate", TRUE),
       !.pub_pc = "returned"])

\* SubActor.start: super().start()
SubBoot ==
  /\ pubsub.sub_pc = "boot"
  /\ PubSubCommit([pubsub EXCEPT !.sub = Boot(@), !.sub_pc = "recv"])

\* a loop of SubActor.start that goes on after 'terminate'
SubTake_NoBreak(ps) ==
  LET d == Decode("pickle", Head(ps.sub.recv_queue)) IN
  [ps EXCEPT !.sub = RecvTake(@),
             !.got = IF d.exc = "ok" THEN Append(@, d.val[2]) ELSE @,
             !.sub_pc = IF d.exc # "ok" THEN "raised" ELSE "recv"]

\* SubActor.start: recv_pickle returns a message, and the loop ends when the
\* message is 'terminate'
SubTake(ps) ==
  LET d == Decode("pickle", Head(ps.sub.recv_queue)) IN
  [ps EXCEPT !.sub = RecvTake(@),
             !.got = IF d.exc = "ok" THEN Append(@, d.val[2]) ELSE @,
             !.sub_pc = IF d.exc # "ok" THEN "raised"
                        ELSE IF d.val[2] = Sentinel THEN "done" ELSE "recv"]

\* SubActor.start: `await self.recv_pickle(name='sub')`
SubRecv ==
  /\ pubsub.sub_pc = "recv"
  /\ IF pubsub.sub.recv_queue # <<>>
     THEN PubSubCommit(SubTake(pubsub))
     ELSE PubSubCommit([pubsub EXCEPT
            !.sub.waiters =
               @ (+) SetToBag({Waiter("recv_get", "recv", FALSE, None)}),
            !.sub_pc = "wait"])

\* the get() of the subscriber's recv is woken by a put
SubWake ==
  /\ pubsub.sub_pc = "wait"
  /\ pubsub.sub.recv_queue # <<>>
  /\ PubSubCommit(SubTake([pubsub EXCEPT
       !.sub.waiters =
          @ (-) SetToBag({Waiter("recv_get", "recv", FALSE, None)})]))

\* the steps of the publisher's emit pipeline; a frame the socket has
\* accepted is on its way to the subscriber
PubTaskStart(t) ==
  /\ pubsub.pub_pc # "none"
  /\ pubsub.pub.tasks[t].st = "ready"
  /\ PubSubCommit([pubsub EXCEPT !.pub = EmitGet(@, t)])

PubEmitWake(t) ==
  /\ pubsub.pub_pc # "none"
  /\ pubsub.pub.tasks[t].st = "get"
  /\ pubsub.pub.emit_queue # <<>>
  /\ PubSubCommit([pubsub EXCEPT !.pub = EmitGet(@, t)])

PubEmitSent(t) ==
  /\ pubsub.pub_pc # "none"
  /\ pubsub.pub.tasks[t].st = "send"
  /\ LET frame == pubsub.pub.sent[Len(pubsub.pub.sent)] IN
     PubSubCommit([pubsub EXCEPT
       !.pub = EmitSendDone(@, t),
       !.wire = IF Routed(pubsub, frame) THEN Append(@, frame) ELSE @])

\* the steps of the subscriber's receive pipeline
SubTaskStart(t) ==
  /\ pubsub.sub_pc # "none"
  /\ pubsub.sub.tasks[t].st = "ready"
  /\ PubSubCommit([pubsub EXCEPT !.sub = RecvWait(@, t)])

SubDeliver(t) ==
  /\ pubsub.sub_pc # "none"
  /\ pubsub.sub.tasks[t].st = "recvwait"
  /\ pubsub.wire # <<>>
  /\ PubSubCommit([pubsub EXCEPT
       !.sub = RecvFrame([@ EXCEPT !.n_deliv = @ + 1], t, Head(pubsub.wire)),
       !.wire = Tail(@)])

PubSteps  == Services \/ PubBoot \/ PubEmit
SubSteps  == SubBoot \/ SubRecv \/ SubWake
PubTasks  == \E t \in TaskIds :
               PubTaskStart(t) \/ PubEmitWake(t) \/ PubEmitSent(t)
SubTasks  == \E t \in TaskIds : SubTaskStart(t) \/ SubDeliver(t)

\* the publisher and the subscriber of the example, each in a loop that
\* runs whatever is ready, and a transport that delivers what it was given;
\* nothing is required of the moment the publisher's last sleep ends
NextPubSub == PubSteps \/ PubReturn \/ SubSteps \/ PubTasks \/ SubTasks
SpecPubSub ==
  /\ Init /\ [][NextPubSub]_vars
  /\ WF_vars(PubSteps) /\ WF_vars(SubSteps)
  /\ WF_vars(PubTasks) /\ WF_vars(SubTasks)

\* start_actor on an actor whose managers were created and bound before it,
\* and whose start() emits on them
NextRun ==
  \/ /\ runner.pc = "idle"
     /\ \/ \E name \in Names : CreateSocketManager(name, "PAIR")
        \/ \E name \in Names : ActorLink(name, BIND, First)
  \/ \E loop \in {"supplied", "new"} : RunStart(loop)
  \/ /\ runner.pc = "start"
     /\ \/ \E name \in Names : ActorEmit("bytes", name)
        \/ \E i \in Names, t \in TaskIds :
             \/ ActorTaskStart(i, t) \/ ActorEmitWake(i, t)
             \/ ActorEmitSent(i, t) \/ ActorFault(i, t)
  \/ RunReturn
  \/ RunInterrupt
SpecRun == Init /\ [][NextRun]_vars

\* one coroutine that creates managers, binds, unbinds and boots them, emits
\* on them and terminates them all, by terminate_socket_managers() or by
\* terminate(), next to the emit pipelines
NextTerminate ==
  \/ \E name \in Names : CreateSocketManager(name, "PAIR")
  \/ \E name \in Names : ActorLink(name, BIND, First)
  \/ \E name \in Names : ActorUnlink(name, UNBIND, First, TRUE)
  \/ \E name \in Names : ActorEmit("bytes", name)
  \/ Bulk("boot_socket_managers", TRUE)
  \/ Bulk("terminate_socket_managers", TRUE)
  \/ ActorResume(TRUE)
  \/ ActorTerminate(TRUE)
  \/ ActorTerminateResume(TRUE)
  \/ \E i \in Names, t \in TaskIds :
       \/ ActorTaskStart(i, t) \/ ActorEmitWake(i, t) \/ ActorEmitSent(i, t)
       \/ ActorCancelled(i, t) \/ ActorFault(i, t)
SpecTerminate == Init /\ [][NextTerminate]_vars

\* one coroutine that boots and stops all managers of an actor, next to the
\* pipelines of the managers
NextStopAll ==
  \/ \E name \in Names : CreateSocketManager(name, "PAIR")
  \/ \E name \in Names, m \in {BIND, CONNECT} : ActorLink(name, m, First)
  \/ \E name \in Names : ActorEmit("bytes", name)
  \/ \E op \in {"boot_socket_managers", "stop_socket_managers"} :
       Bulk(op, TRUE)
  \/ ActorResume(TRUE)
  \/ ActorTasks({"bytes"})
SpecStopAll == Init /\ [][NextStopAll]_vars

\* one coroutine that boots, reboots and terminates all managers of an
\* actor, next to the receive pipelines
NextBulk ==
  \/ \E name \in Names : CreateSocketManager(name, "PAIR")
  \/ \E name \in Names, m \in {BIND, CONNECT} : ActorLink(name, m, First)
  \/ \E name \in Names, strict \in BOOLEAN :
       ActorUnlink(name, UNBIND, First, strict)
  \/ \E op \in BulkOps \ {"stop_socket_managers"}, strict \in BOOLEAN :
       Bulk(op, strict)
  \/ \E strict \in BOOLEAN : ActorResume(strict)
  \/ \E i \in Names, t \in TaskIds :
       \/ ActorTaskStart(i, t) \/ ActorDeliver(i, t, "bytes")
       \/ ActorCancelled(i, t) \/ ActorFault(i, t)
SpecBulk == Init /\ [][NextBulk]_vars

\* ----------------------------------------------------------------- claims
Forward(m) == IF m = UNBIND THEN BIND ELSE CONNECT

Increasing(q) == \A i, j \in 1..Len(q) : i < j => q[i] < q[j]

SentIds     == [i \in 1..Len(sent) |-> sent[i][2][2]]
EmitIds     == [i \in 1..Len(emit_queue) |-> emit_queue[i][2][2]]
ReturnedIds == [i \in 1..Len(returned) |-> returned[i][2]]
RecvIds     == [i \in 1..Len(recv_queue) |-> recv_queue[i][2]]

AliveTasks(kind) ==
  {t \in TaskIds : tasks[t].kind = kind /\ tasks[t].st # "free"}

\* C1: a link of an endpoint that is already active under the method, and an
\* unlink of an endpoint that is not active under the forward method, raise
\* ValueError, make no transport call and leave the four endpoint sets as
\* they were.
C1_RejectedLinkHasNoEffect ==
  [][ /\ (last'.op = "link" /\ last'.e \in endpoints[last'.m])
           => /\ last'.res = "ValueError"
              /\ ncalls' = NoCalls
              /\ UNCHANGED <<endpoints, socket>>
      /\ (last'.op = "unlink" /\ last'.e \notin endpoints[Forward(last'.m)])
           => /\ last'.res = "ValueError"
              /\ ncalls' = NoCalls
              /\ UNCHANGED <<endpoints, socket>> ]_vars

\* a second bind of a bound endpoint has just been rejected
C1_Witness ==
  /\ last.op = "link"
  /\ last.res = "ValueError"
  /\ last.e \in endpoints[last.m]
  /\ ncalls = NoCalls

\* C2: after a successful unbind(e) the endpoint e is not in endpoints[bind],
\* and after a successful disconnect(e) it is not in endpoints[connect].
C2_UnlinkRemovesFromActive ==
  (last.op = "unlink" /\ last.res = "ok")
    => last.e \notin endpoints[Forward(last.m)]

\* C3: the transport's unbind(e) is only applied while the socket is bound to
\* e, and its disconnect(e) only while the socket is connected to e.
C3_TeardownOnlyWhileLinked ==
  [][ \A e \in Endpoints :
        /\ ncalls'[UNBIND][e] > 0 => e \in socket.bind
        /\ ncalls'[DISCONNECT][e] > 0 => e \in socket.connect
    ]_vars

\* C4: terminate() on a manager none of whose links was unlinked one by one
\* returns with the matching transport teardown applied exactly once to every
\* endpoint that was in bind or connect, all four endpoint sets empty, both
\* queues empty, no pipeline handle, and the socket closed after the
\* teardown calls.
C4_TerminateTearsDown ==
  [][ ( /\ last'.op = "terminate"
        /\ endpoints[UNBIND] = endpoints[BIND]
        /\ endpoints[DISCONNECT] = endpoints[CONNECT] )
      => /\ last'.res = "ok"
         /\ \A e \in Endpoints :
              /\ ncalls'[UNBIND][e] = (IF e \in endpoints[BIND] THEN 1 ELSE 0)
              /\ ncalls'[DISCONNECT][e] =
                   (IF e \in endpoints[CONNECT] THEN 1 ELSE 0)
         /\ \A m \in Methods : endpoints'[m] = {}
         /\ socket'.bind = {} /\ socket'.connect = {}
         /\ emit_queue' = <<>> /\ recv_queue' = <<>>
         /\ emit_task' = None /\ recv_task' = None
         /\ socket'.closed
         /\ after_close' \cap {UNBIND, DISCONNECT} = {} ]_vars

\* terminate() has returned on a booted manager that had two bind links and a
\* connect link and a frame in its emit queue
C4_Witness ==
  /\ last.op = "terminate"
  /\ last.res = "ok"
  /\ \A e \in Endpoints : ncalls[UNBIND][e] = 1
  /\ \E e \in Endpoints : ncalls[DISCONNECT][e] = 1
  /\ discarded.emit # {}
  /\ socket.closed

\* C5: on a manager that was never booted, terminate() returns without
\* raising, with the links torn down and the socket closed, whatever the
\* manager was linked to.
C5_TerminateNeverBooted ==
  last.op = "terminate"
    => /\ last.res = "ok"
       /\ socket.closed
       /\ \A m \in Methods : endpoints[m] = {}

\* C6: in no state is is_emitting() false while an emit pipeline task is
\* alive, nor is_receiving() false while a receive pipeline task is alive.
C6_StoppedMeansFinished ==
  /\ emit_task = None => AliveTasks("emit") = {}
  /\ recv_task = None => AliveTasks("recv") = {}

\* C7: once the socket is closed no pipeline task is alive, and none has
\* called send_multipart or recv_multipart on the closed socket.
C7_NoUseAfterClose ==
  socket.closed
    => /\ AliveTasks("emit") = {} /\ AliveTasks("recv") = {}
       /\ after_close \cap {"send_multipart", "recv_multipart"} = {}

\* C8: the frames handed to send_multipart are, in order, frames of the
\* emit() calls, none twice and none out of order; the frames still queued
\* come after them, in order; and every frame of an emit() call that was
\* neither handed over nor is queued was dropped by empty_queues().
C8_EmitFifo ==
  /\ \A i \in 1..Len(sent) : sent[i] = Frame(SentIds[i])
  /\ Increasing(SentIds \o EmitIds)
  /\ Range(SentIds) \cup Range(EmitIds) \cup discarded.emit = 1..n_emit

\* two frames have been handed to the socket
C8_Witness == Len(sent) >= 2 /\ SentIds[1] < SentIds[2]

\* C9: the values recv() returns are, in order, the payload parts of the
\* delivered frames, none twice; the payloads still queued come after them;
\* and every delivered payload that was neither returned nor is queued was
\* dropped by empty_queues().
C9_RecvFifo ==
  /\ \A i \in 1..Len(returned) : returned[i] = Payload(ReturnedIds[i])
  /\ Increasing(ReturnedIds \o RecvIds)
  /\ Range(ReturnedIds) \cup Range(RecvIds) \cup discarded.recv = 1..n_deliv

\* two recv() calls have returned
C9_Witness == Len(returned) >= 2 /\ ReturnedIds[1] < ReturnedIds[2]

\* C10: when stop(empty_queue=True) returns both queues are empty, and a
\* frame that was in the emit queue when the queues were emptied is never
\* handed to the socket, also after a later boot().
C10_StopDiscardsQueues ==
  /\ (last.op = "stop" /\ last.eq) => emit_queue = <<>> /\ recv_queue = <<>>
  /\ Range(SentIds) \cap discarded.emit = {}
  /\ Range(SentIds) \cup Range(EmitIds) \cup discarded.emit = 1..n_emit

\* a frame put on the queue of a manager that was not booted has been
\* dropped, and the emit pipeline has been booted after that
C10_Witness ==
  /\ discarded.emit # {}
  /\ sent = <<>>
  /\ emit_task \in TaskIds
  /\ tasks[emit_task].st = "get"

\* a step of the one coroutine that calls the manager, in the call op: the
\* call returns, or it reaches a suspension point it was not at
StepOf(op) ==
  \/ last'.op = op
  \/ \E w \in BagToSet(waiters') :
       /\ w.op = op
       /\ \A v \in BagToSet(waiters) : v.op = op => v.pc # w.pc

\* the tasks of the pipeline `kind` are the same and in the same state
SamePipeline(kind) ==
  \A t \in TaskIds :
    (tasks[t].kind = kind \/ tasks'[t].kind = kind) => tasks'[t] = tasks[t]

\* C11: boot() spawns the emit pipeline exactly when endpoints[bind] is not
\* empty and no emit handle is present, and the receive pipeline exactly when
\* endpoints[connect] is not empty and no receive handle is present; a handle
\* that is present and its task are left as they are; boot() does not raise;
\* and after boot() on a manager with a bind and a connect link both
\* is_emitting() and is_receiving() hold.
C11_BootPerDirection ==
  [][ last'.op = "boot" =>
        LET spawnE == endpoints[BIND] # {} /\ emit_task = None
            spawnR == endpoints[CONNECT] # {} /\ recv_task = None
            new    == {t \in TaskIds : tasks[t].st = "free" /\ tasks'[t].st # "free"}
        IN  /\ last'.res = "ok"
            /\ IF spawnE
               THEN /\ emit_task' \in new
                    /\ tasks'[emit_task'] = [kind |-> "emit", st |-> "ready"]
               ELSE emit_task' = emit_task
            /\ IF spawnR
               THEN /\ recv_task' \in new
                    /\ tasks'[recv_task'] = [kind |-> "recv", st |-> "ready"]
               ELSE recv_task' = recv_task
            /\ new = (IF spawnE THEN {emit_task'} ELSE {})
                       \cup (IF spawnR THEN {recv_task'} ELSE {})
            /\ \A t \in TaskIds \ new : tasks'[t] = tasks[t]
            /\ (endpoints[BIND] # {} /\ endpoints[CONNECT] # {})
                 => emit_task' # None /\ recv_task' # None ]_vars

\* boot() has returned on a manager whose emit pipeline was running and whose
\* receive pipeline it has just spawned
C11_Witness ==
  /\ last.op = "boot"
  /\ emit_task \in TaskIds /\ tasks[emit_task].st \in {"get", "send"}
  /\ recv_task \in TaskIds /\ tasks[recv_task].st = "ready"

\* C12: stop_emitting() leaves the receive handle, the receive pipeline task,
\* the endpoint sets and the subscriptions as they are, and when it returns
\* is_emitting() is false; stop_receiving() does the same with the two
\* sides exchanged.
C12_StopOneSide ==
  [][ /\ StepOf("stop_emitting") =>
           /\ recv_task' = recv_task
           /\ SamePipeline("recv")
           /\ UNCHANGED <<endpoints, subscriptions>>
           /\ last'.op = "stop_emitting" =>
                 last'.res = "ok" /\ emit_task' = None
      /\ StepOf("stop_receiving") =>
           /\ emit_task' = emit_task
           /\ SamePipeline("emit")
           /\ UNCHANGED <<endpoints, subscriptions>>
           /\ last'.op = "stop_receiving" =>
                 last'.res = "ok" /\ recv_task' = None ]_vars

\* stop_emitting() has returned on a subscribed manager whose receive
\* pipeline is waiting for a frame
C12_Witness ==
  /\ last.op = "stop_emitting"
  /\ emit_task = None
  /\ recv_task \in TaskIds /\ tasks[recv_task].st = "recvwait"
  /\ subscriptions # {}

\* C13: reboot() leaves the four endpoint sets and the subscriptions as they
\* are and makes no transport call; when it returns both queues are empty,
\* the emit pipeline is running exactly when endpoints[bind] is not empty,
\* and the receive pipeline exactly when endpoints[connect] is not empty.
C13_RebootKeepsLinks ==
  [][ StepOf("reboot") =>
        /\ UNCHANGED <<endpoints, subscriptions, socket>>
        /\ ncalls' = NoCalls
        /\ last'.op = "reboot" =>
              /\ last'.res = "ok"
              /\ emit_queue' = <<>> /\ recv_queue' = <<>>
              /\ IF endpoints[BIND] # {}
                 THEN emit_task' \in TaskIds /\ tasks'[emit_task'].kind = "emit"
                 ELSE emit_task' = None /\ AliveTasks("emit")' = {}
              /\ IF endpoints[CONNECT] # {}
                 THEN recv_task' \in TaskIds /\ tasks'[recv_task'].kind = "recv"
                 ELSE recv_task' = None /\ AliveTasks("recv")' = {} ]_vars

\* reboot() has returned on a subscribed manager with a bind link only,
\* having dropped a queued frame
C13_Witness ==
  /\ last.op = "reboot"
  /\ discarded.emit # {}
  /\ emit_task \in TaskIds
  /\ recv_task = None
  /\ endpoints[BIND] # {} /\ endpoints[CONNECT] = {}
  /\ subscriptions # {}

\* C14: once terminate() has completed (only then is the socket closed), no
\* link, boot, reboot, emit or subscribe call brings a pipeline back to
\* running or makes an endpoint active again.
C14_TerminatedIsAbsorbing ==
  socket.closed
    => /\ emit_task = None /\ recv_task = None
       /\ AliveTasks("emit") = {} /\ AliveTasks("recv") = {}
       /\ endpoints[BIND] = {} /\ endpoints[CONNECT] = {}

\* after terminate() a frame was emitted and a link was tried and refused
C14_Witness ==
  /\ socket.closed
  /\ emit_queue # <<>>
  /\ last.op = "link"
  /\ last.res = "ZMQError"

\* C15: an exception other than the cancellation inside a pipeline ends that
\* pipeline only: the other pipeline and its handle are as they were, the
\* handle of the ended pipeline stays present, and no call returns in that
\* step; boot() does not restart a pipeline that has ended so, reboot()
\* starts a new one; and stop(), reboot(), terminate() and boot() never raise
\* what a pipeline raised, nor its cancellation.
C15_FaultsStayInside ==
  [][ /\ \A t \in TaskIds :
           (tasks[t].st \in {"send", "recvwait"} /\ tasks'[t].st = "free")
             => /\ \A u \in TaskIds \ {t} : tasks'[u] = tasks[u]
                /\ emit_task' = (IF emit_task = t THEN Finished ELSE emit_task)
                /\ recv_task' = (IF recv_task = t THEN Finished ELSE recv_task)
                /\ last' = NoCall
      /\ last'.op = "boot" =>
           /\ emit_task = Finished =>
                emit_task' = Finished /\ AliveTasks("emit")' = AliveTasks("emit")
           /\ recv_task = Finished =>
                recv_task' = Finished /\ AliveTasks("recv")' = AliveTasks("recv")
      /\ last'.op = "reboot" =>
           /\ endpoints[BIND] # {} =>
                emit_task' \in TaskIds /\ tasks'[emit_task'].st = "ready"
           /\ endpoints[CONNECT] # {} =>
                recv_task' \in TaskIds /\ tasks'[recv_task'].st = "ready"
      /\ last'.op \in {"boot", "stop", "reboot", "terminate"} =>
           last'.res = "ok" ]_vars

\* the emit pipeline has ended on a fault while the receive pipeline waits
\* for a frame, and a boot() after that has returned
C15_Witness ==
  /\ emit_task = Finished
  /\ waiters = EmptyBag
  /\ recv_task \in TaskIds /\ tasks[recv_task].st = "recvwait"
  /\ last.op = "boot"

\* the manager stored under name in the dict sms
Manager(sms, name) == sms[Index(sms, name)].sm

Keys(sms) == {sms[i].name : i \in 1..Len(sms)}

C17_RemoveTerminatesAndDeletes ==
  [][ actor_last'.op = "remove_socket_manager" =>
        IF actor_last'.name \in Keys(socket_managers)
        THEN /\ actor_last'.res = "ok"
             /\ actor_last'.val[1] = "terminated"
             /\ socket_managers' =
                  RemoveAt(socket_managers,
                           Index(socket_managers, actor_last'.name))
        ELSE /\ actor_last'.res = "KeyError"
             /\ socket_managers' = socket_managers
    ]_vars

\* C18: emit_bytes, emit_json, emit_msgpack, emit_pickle, recv_bytes,
\* recv_json, recv_msgpack and recv_pickle with a name that is not a key of
\* socket_managers raise KeyError to the caller, who is not left waiting, and
\* leave the dict and every manager in it, the queues included, as they were.
C18_UnknownNameRaisesKeyError ==
  [][ /\ \A name \in Names \ Keys(socket_managers) :
           (actor_last'.op \in {"emit", "recv"} /\ actor_last'.name = name)
             => /\ actor_last'.res = "KeyError"
                /\ actor_call' = NoActorCall
                /\ socket_managers' = socket_managers
      /\ actor_call'.op = "recv" => actor_call'.i \in 1..Len(socket_managers')
    ]_vars

\* a receive by a name that is not a key has raised KeyError while the
\* manager of the actor holds a frame to send and a payload to return
C18_Witness ==
  /\ actor_last.op = "recv"
  /\ actor_last.res = "KeyError"
  /\ actor_last.name \notin Keys(socket_managers)
  /\ \E i \in 1..Len(socket_managers) :
       /\ socket_managers[i].sm.emit_queue # <<>>
       /\ socket_managers[i].sm.recv_queue # <<>>

\* the managers of the dict
Managers == {socket_managers[i].sm : i \in 1..Len(socket_managers)}

NoPipeline(s) ==
  /\ s.emit_task = None /\ s.recv_task = None
  /\ \A t \in TaskIds : s.tasks[t].st = "free"

\* C19: when stop_socket_managers() has returned, no manager of the actor
\* has a pipeline and the emit queue and the receive queue of every manager
\* are empty.
C19_StopAllDiscardsQueues ==
  actor_last.op = "stop_socket_managers"
    => \A s \in Managers :
         /\ NoPipeline(s)
         /\ s.emit_queue = <<>>
         /\ s.recv_queue = <<>>

\* every manager of the dict that is bound is emitting, and every one that
\* is connected is receiving
AllBooted ==
  \A s \in Managers :
    /\ s.socket.bind # {} => IsEmitting(s)
    /\ s.socket.connect # {} => IsReceiving(s)

\* C20: when boot_socket_managers() has returned every manager with a bind
\* link is emitting and every manager with a connect link is receiving; when
\* reboot_socket_managers() has returned the same holds and all queues are
\* empty; when terminate_socket_managers() has returned no manager has a
\* pipeline and the socket of every manager is closed.
C20_BulkReachesEveryManager ==
  /\ actor_last.op = "boot_socket_managers" => AllBooted
  /\ actor_last.op = "reboot_socket_managers"
       => /\ AllBooted
          /\ \A s \in Managers : s.emit_queue = <<>> /\ s.recv_queue = <<>>
  /\ actor_last.op = "terminate_socket_managers"
       => \A s \in Managers : NoPipeline(s) /\ s.socket.closed

\* C21: a call of Actor.terminate() returns, and when it has returned every
\* manager the actor owned is terminated (no pipeline, no link, the socket
\* closed), the context is terminated and socket_managers is empty.
C21_TerminateTearsDown ==
  [][ actor_last'.op = "terminate" =>
        /\ actor_last'.res = "ok"
        /\ actor_last'.val = <<"terminated", Len(socket_managers)>>
        /\ socket_managers' = <<>>
        /\ context' = "terminated"
    ]_vars

\* C22: after Actor.terminate(), as on a new actor, a create with a name
\* that is not in use and a supported type succeeds and stores a new manager.
C22_CreateAfterTerminate ==
  [][ ( /\ actor_last'.op = "create"
        /\ actor_last'.name \notin Keys(socket_managers)
        /\ actor_last'.val[1] \in SOCKET_TYPES )
      => /\ actor_last'.res = "ok"
         /\ socket_managers' =
              Append(socket_managers,
                     [name |-> actor_last'.name, sm |-> NewManager])
    ]_vars

\* C23: no manager whose socket is closed is a value of socket_managers, so
\* no emit or recv of the actor reaches a terminated manager.
C23_TerminatedIsAbsent ==
  \A i \in DOMAIN socket_managers : ~socket_managers[i].sm.socket.closed

\* C24: when start_actor has ended, with a loop supplied or with none, after
\* actor.start() has returned or after a KeyboardInterrupt, actor.terminate()
\* has been run: the actor has no manager left and its context is terminated.
C24_RunnerTerminates ==
  runner.pc \in {"returned", "raised"}
    => /\ actor_last.op = "terminate"
       /\ actor_last.res = "ok"
       /\ actor_last.val[1] = "terminated"
       /\ socket_managers = <<>>
       /\ context = "terminated"

StringKeys(v) == \A i \in DOMAIN v.keys : v.keys[i][1] = "str"

C27_JsonReturnsNoneOthersRaise ==
  [][ (actor_last'.op = "recv" /\ actor_last'.res # "KeyError") =>
        LET i    == Index(socket_managers, actor_last'.name)
            data == Head(socket_managers[i].sm.recv_queue)
            fmt  == actor_last'.fmt
        IN  /\ socket_managers'[i].sm.recv_queue =
                 Tail(socket_managers[i].sm.recv_queue)
            /\ actor_call' = NoActorCall
            /\ fmt = "json" =>
                 /\ actor_last'.res = "ok"
                 /\ JsonParse(data).exc # "ok" =>
                      actor_last'.val = <<"object", NoneObj>>
            /\ (fmt = "msgpack" /\ MsgpackDecode(data).exc # "ok") =>
                 actor_last'.res = "DecodeError"
            /\ (fmt = "pickle" /\ PickleDecode(data).exc # "ok") =>
                 actor_last'.res = "UnpicklingError"
    ]_vars

\* recv_json has returned None and left the receive queue empty
C27_Witness ==
  /\ actor_last.op = "recv"
  /\ actor_last.fmt = "json"
  /\ actor_last.res = "ok"
  /\ actor_last.val = <<"object", NoneObj>>
  /\ Manager(socket_managers, actor_last.name).recv_queue = <<>>
  /\ Manager(socket_managers, actor_last.name).n_deliv = 1

\* C25: the values the subscriber's recv_pickle calls return are at every
\* moment the first of 0, 1, ..., 'terminate', in that order, and at last
\* they are all of them and the subscriber's loop has stopped.
C25_SubscriberGetsAll ==
  /\ [](/\ Len(pubsub.got) <= Len(PubMessages)
        /\ pubsub.got = SubSeq(PubMessages, 1, Len(pubsub.got))
        /\ pubsub.sub_pc # "raised")
  /\ <>(pubsub.sub_pc = "done" /\ pubsub.got = PubMessages)

\* the loop of the subscriber has stopped on 'terminate', after the
\* publisher was terminated
C25_Witness ==
  /\ pubsub.sub_pc = "done"
  /\ pubsub.got = PubMessages
  /\ pubsub.pub_pc = "returned"
  /\ pubsub.pub.socket.closed

\* the transport calls of a step are one setsockopt(opt, topic)
OneSockopt(calls, opt, topic) ==
  calls = [NoCalls EXCEPT ![opt][topic] = 1]

\* C26: self.subscriptions is the set of the topics the socket is subscribed
\* to; subscribe of a subscribed topic and unsubscribe of a topic that is not
\* subscribed do not raise, make no transport call and leave subscriptions as
\* it is; subscribe of another topic and unsubscribe of a subscribed one, on
\* a socket that is not closed, set the option once and add or remove the
\* topic.
C26_SubscriptionsTrackTransport ==
  [][ /\ subscriptions' = socket'.topics
      /\ last'.op = "subscribe" =>
           IF last'.e \in subscriptions
           THEN /\ last'.res = "ok" /\ ncalls' = NoCalls
                /\ subscriptions' = subscriptions
           ELSE /\ OneSockopt(ncalls', SUBSCRIBE, last'.e)
                /\ ~socket.closed =>
                     /\ last'.res = "ok"
                     /\ subscriptions' = subscriptions \cup {last'.e}
      /\ last'.op = "unsubscribe" =>
           IF last'.e \notin subscriptions
           THEN /\ last'.res = "ok" /\ ncalls' = NoCalls
                /\ subscriptions' = subscriptions
           ELSE /\ OneSockopt(ncalls', UNSUBSCRIBE, last'.e)
                /\ ~socket.closed =>
                     /\ last'.res = "ok"
                     /\ subscriptions' = subscriptions \ {last'.e}
    ]_vars

\* a subscribe of a topic that was subscribed has returned, with no transport
\* call, on a manager whose receive pipeline waits for a frame
C26_Witness ==
  /\ last.op = "subscribe"
  /\ last.res = "ok"
  /\ last.e \in subscriptions
  /\ ncalls = NoCalls
  /\ socket.topics = {last.e}
  /\ recv_task \in TaskIds /\ tasks[recv_task].st = "recvwait"

\* the call of the builder of state `built`
BuiltCall == [scheme |-> built.scheme, a |-> built.a, b |-> built.b]

\* C28 as stated: no call of a builder with another scheme or with other
\* parameters gives the endpoint a call has given.
C28_NoTwoCallsCollide ==
  built.pc = "built"
    => \A y \in BuilderCalls : EndpointOf(y) = built.endpoint => y = BuiltCall

\* the port of the call x does not hold the character that the builder of
\* its scheme puts between ip_address and port
PlainPort(x) ==
  /\ x.scheme \in {"udp", "tcp"} => ":" \notin Range(x.b)
  /\ x.scheme \in {"pgm", "epgm"} => ";" \notin Range(x.b)

\* C28: the endpoint of a call is the string its builder's format gives,
\* and among the calls whose port does not hold the separator of the scheme
\* no two calls, with different schemes, different references or different
\* (ip_address, port) pairs, give the same endpoint.
C28_BuildersInjective ==
  (built.pc = "built" /\ PlainPort(BuiltCall))
    => /\ built.endpoint = EndpointOf(BuiltCall)
       /\ \A y \in BuilderCalls :
            (PlainPort(y) /\ EndpointOf(y) = built.endpoint) => y = BuiltCall

\* the tcp builder was called with an ip_address that holds colons and a
\* port that holds none
C28_Witness ==
  /\ built.pc = "built"
  /\ built.scheme = "tcp"
  /\ built.a = <<":", ":">>
  /\ built.b = <<"a">>
  /\ built.endpoint = <<"t", "c", "p", ":", "/", "/", ":", ":", ":", "a">>

\* C30: in every state of a manager, an emit pipeline is present only while
\* the socket has a bind link in effect, and a receive pipeline only while
\* it has a connect link in effect.
C30_PipelinesOnlyWithLinks ==
  /\ IsEmitting(St) => socket.bind # {}
  /\ IsReceiving(St) => socket.connect # {}

\* the teardown method that mirrors a link method
Mirror(m) == IF m = BIND THEN UNBIND ELSE DISCONNECT

\* C31: a link that succeeds has applied the transport's bind or connect to
\* the endpoint exactly once and no other transport call, and has added the
\* endpoint to the set of its method and to the mirroring teardown set; the
\* two sets of the other direction are as they were.
C31_LinkRecordsAndMirrors ==
  [][ \A m \in {BIND, CONNECT} :
        (last'.op = "link" /\ last'.m = m /\ last'.res = "ok")
          => /\ last'.e \notin endpoints[m]
             /\ ncalls' = [NoCalls EXCEPT ![m][last'.e] = 1]
             /\ socket'[m] = socket[m] \cup {last'.e}
             /\ endpoints' =
                  [endpoints EXCEPT ![m] = @ \cup {last'.e},
                                    ![Mirror(m)] = @ \cup {last'.e}] ]_vars

\* connect(e) has just succeeded on a manager that is bound as well
C31_Witness ==
  /\ last.op = "link" /\ last.m = CONNECT /\ last.res = "ok"
  /\ ncalls[CONNECT][last.e] = 1
  /\ last.e \in endpoints[CONNECT] \cap endpoints[DISCONNECT]
  /\ last.e \notin endpoints[BIND] \cup endpoints[UNBIND]
  /\ endpoints[BIND] # {}


\* C32: an unbind(e) or disconnect(e) that succeeds finds e in the teardown
\* set of its method, endpoints[unbind] or endpoints[disconnect], and leaves
\* that set without e.
C32_UnlinkClearsStaging ==
  [][ (last'.op = "unlink" /\ last'.res = "ok")
        => /\ last'.e \in endpoints[last'.m]
           /\ last'.e \notin endpoints'[last'.m] ]_vars

\* disconnect(e) has just succeeded after connect(e)
C32_Witness ==
  /\ last.op = "unlink" /\ last.m = DISCONNECT /\ last.res = "ok"
  /\ ncalls[DISCONNECT][last.e] = 1
  /\ last.e \notin endpoints[DISCONNECT]
  /\ last.e \notin socket.connect


\* C33: in every state is_emitting() is true exactly when an emit pipeline
\* task is alive, is_receiving() exactly when a receive pipeline task is
\* alive, and is_bidirectional() exactly when both are.
C33_HandlesSignalRunning ==
  /\ IsEmitting(St) <=> AliveTasks("emit") # {}
  /\ IsReceiving(St) <=> AliveTasks("recv") # {}
  /\ IsBidirectional(St) <=> (AliveTasks("emit") # {} /\ AliveTasks("recv") # {})


\* a call of stop() is suspended in one of its two awaits
StopSuspended == \E w \in Awaiting : w.op = "stop"

\* C34: under the scheduling of the event loop every call of stop() that has
\* suspended returns, without raising, wherever the pipelines were when they
\* were cancelled.
C34_StopReturns ==
  StopSuspended ~> (last.op = "stop" /\ last.res = "ok")

\* stop() has returned after it had cancelled an emit pipeline blocked in
\* send_multipart and a receive pipeline waiting for a frame
C34_Witness ==
  /\ last.op = "stop" /\ last.res = "ok"
  /\ emit_task = None /\ recv_task = None
  /\ AliveTasks("emit") = {} /\ AliveTasks("recv") = {}
  /\ Len(sent) = 1
  /\ emit_unfinished = 1
  /\ endpoints[CONNECT] # {}


\* C35: in every state endpoints[unbind] is a subset of endpoints[bind] and
\* endpoints[disconnect] is a subset of endpoints[connect].
C35_StagingWithinActive ==
  /\ endpoints[UNBIND] \subseteq endpoints[BIND]
  /\ endpoints[DISCONNECT] \subseteq endpoints[CONNECT]

\* terminate() has just raised on a booted manager one of whose two bind
\* links had been unbound
C35_Witness ==
  /\ last.op = "terminate" /\ last.res # "ok"
  /\ endpoints[BIND] = Endpoints
  /\ endpoints[UNBIND] # {} /\ endpoints[UNBIND] # endpoints[BIND]
  /\ ~socket.closed


\* C36: in every state at most one emit pipeline task and at most one
\* receive pipeline task are alive, and a pipeline task that is alive is the
\* one its handle refers to.
C36_OnePipelinePerDirection ==
  /\ Cardinality(AliveTasks("emit")) <= 1
  /\ Cardinality(AliveTasks("recv")) <= 1
  /\ \A t \in AliveTasks("emit") : emit_task = t
  /\ \A t \in AliveTasks("recv") : recv_task = t


\* the frames of the emit() calls from the i-th to the j-th
Frames(i, j) == [k \in 1..(j - i + 1) |-> Frame(i + k - 1)]

\* the number of frames whose send_multipart has returned, where no queue
\* was ever replaced
Written == n_emit - emit_unfinished

\* C37: when stop(empty_queue=False) returns, the frames passed to emit()
\* and not written to the socket are in the emit queue, in the order of the
\* calls and none missing, and the payloads delivered and not taken by
\* recv() are in the receive queue.
C37_StopKeepsFrames ==
  (last.op = "stop" /\ ~last.eq)
    => /\ emit_queue = Frames(Written + 1, n_emit)
       /\ recv_queue = [k \in 1..n_deliv |-> Payload(k)]


\* a caller is suspended in recv()
RecvSuspended == \E w \in BagToSet(waiters) : w.op = "recv"

\* C38: whenever a caller is suspended in recv() and a payload that the
\* receive pipeline has queued is in the receive queue, a recv() call
\* eventually returns, also when stop(empty_queue=True) or reboot() ran while
\* the caller was suspended.
C38_SuspendedRecvResumes ==
  \A k \in 0..MaxDeliver :
    (RecvSuspended /\ recv_queue # <<>> /\ Len(returned) = k)
      ~> (Len(returned) > k)


\* C39: terminate() returns without raising, has applied the transport's
\* unbind and disconnect exactly to the endpoints the socket was still
\* linked to, and leaves the four endpoint sets empty and the socket closed,
\* also when endpoints were unbound or disconnected one by one before.
C39_TerminateCompletes ==
  [][ last'.op = "terminate"
        => /\ last'.res = "ok"
           /\ \A e \in Endpoints :
                /\ ncalls'[UNBIND][e] = (IF e \in socket.bind THEN 1 ELSE 0)
                /\ ncalls'[DISCONNECT][e] =
                     (IF e \in socket.connect THEN 1 ELSE 0)
           /\ \A m \in Methods : endpoints'[m] = {}
           /\ socket'.closed ]_vars

====
